---- MODULE Spec2Model ----
(***************************************************************************)
(* easy-fs: the block cache (block_cache.rs), the bitmap allocator         *)
(* (bitmap.rs), the filesystem object (efs.rs) and the vnode layer         *)
(* (vfs.rs), as a state machine over a block device.                       *)
(*                                                                         *)
(* A block is a sparse byte map: a function from the offsets of its        *)
(* non-zero bytes to their values (1..255); every other byte is 0.  The    *)
(* device is a sparse map from block ids to non-zero blocks.               *)
(***************************************************************************)
EXTENDS Integers, Sequences, FiniteSets, TLC

VARIABLES
    dev,        \* the block device: block id -> block (sparse)
    queue,      \* BLOCK_CACHE_MANAGER.queue: sequence of cache entries
    handles,    \* the Arc<Mutex<BlockCache>> clones callers hold, oldest first
    panicked,   \* a panic!/assert! has fired: the program is dead
    last,       \* the operation that produced this state, with its arguments
    fresh,      \* workload: the smallest block id never requested so far
    budget,     \* workload: counted steps taken so far
    bitmap,     \* a Bitmap: [start_block_id, blocks]
    efs,        \* the EasyFileSystem in use (NoEfs: none yet)
    vnodes,     \* the Inode handles the caller holds, as inode ids
    gdir,       \* history: the root's dirents as the calls made imply them
    pc,         \* per thread: where it is in its call of an Inode operation
    fs_mutex,   \* the Mutex of Arc<Mutex<EasyFileSystem>>: its holder, or 0
    manager_mutex,  \* the Mutex of BLOCK_CACHE_MANAGER: its holder, or 0
    entry_mutex,    \* the locked Mutex<BlockCache>s: pairs <<block id, holder>>
    overflow_checks \* the build: u32 overflow panics (debug), or wraps (release)

vars == <<dev, queue, handles, panicked, last, fresh, budget, bitmap,
          efs, vnodes, gdir, pc, fs_mutex, manager_mutex, entry_mutex,
          overflow_checks>>

\* the variables no action changes: the Bitmap under test and the build
fixed == <<bitmap, overflow_checks>>

\* the variables of the filesystem layer
fsvars == <<efs, vnodes, gdir>>

\* the variables of the threads
threadvars == <<pc, fs_mutex, manager_mutex, entry_mutex>>

\* the mutexes of the block cache
cachelocks == <<manager_mutex, entry_mutex>>

\* the threads that call into the filesystem
Threads == {1, 2}

\* a thread outside every call
NoCall == [at |-> "idle", call |-> <<>>]

\* no thread is in a call, nobody holds a mutex
NoThreads ==
    /\ pc = [t \in Threads |-> NoCall] /\ fs_mutex = 0
    /\ manager_mutex = 0 /\ entry_mutex = {}

(***************************************************************************)
(* Program constants                                                       *)
(***************************************************************************)
BLOCK_SZ == 512

BLOCK_CACHE_SIZE == 16

(***************************************************************************)
(* Bounds of the model                                                     *)
(***************************************************************************)
\* block ids the cache workload requests: 0 .. NBlocks-1
NBlocks == 19

\* counted steps (request again, modify, release) of one cache workload
MaxOps == 1

\* byte values a cache workload writes: 1 .. MaxByte
MaxByte == 1

\* blocks a cache workload requests again: 0 .. MaxAgain-1
MaxAgain == 2

\* blocks of the bitmap of a bitmap workload: 0 .. MaxBitmapBlocks
MaxBitmapBlocks == 2

\* alloc and dealloc calls of one bitmap workload
MaxBitmapOps == 2

\* filesystem workloads: counted calls
MaxFsOps == 3

\* filesystem workloads: the device's number of blocks
TotalBlocks == 1100

\* calls in a run of SpecDir
MaxDirOps == 4

\* device sizes tried above the smallest one a format accepts
MaxSpare == 12

(***************************************************************************)
(* Blocks and the block device                                             *)
(***************************************************************************)
ZeroBlock == [o \in {} |-> 0]

ByteAt(blk, o) == IF o \in DOMAIN blk THEN blk[o] ELSE 0

\* store the bytes bs (offset -> value, zeros included) into blk; the new
\* buffer is a value at once, not a rule over blk
StoreBytes(blk, bs) ==
    LET D == DOMAIN blk \cup DOMAIN bs
        val(o) == IF o \in DOMAIN bs THEN bs[o] ELSE blk[o]
    IN  CHOOSE f \in {[o \in {x \in D : val(x) # 0} |-> val(o)]} : f = f

read_block(d, id) == IF id \in DOMAIN d THEN d[id] ELSE ZeroBlock

\* the new device is a value at once, not a rule over d
write_block(d, id, buf) ==
    LET D == DOMAIN d \cup {id}
        val(b) == IF b = id THEN buf ELSE d[b]
    IN  CHOOSE f \in {[b \in {x \in D : val(x) # ZeroBlock} |-> val(b)]} : f = f

(***************************************************************************)
(* BlockCache                                                              *)
(* An entry is [block_id, cache, modified] plus two history fields that    *)
(* are not in the code: since the entry was loaded or last written to the  *)
(* device, mutacc: a mutable view of the buffer was handed out; wrote: a   *)
(* store into the buffer happened.                                         *)
(***************************************************************************)
BlockCache_new(block_id, d) ==
    [block_id |-> block_id, cache |-> read_block(d, block_id),
     modified |-> FALSE, mutacc |-> FALSE, wrote |-> FALSE]

\* get_mut: the mutable view is handed out, the entry is marked dirty
get_mut_nomark(e) == e

get_mut(e) == [e EXCEPT !.modified = TRUE]

\* the entry as it is once its buffer is on the device
Flushed(e) == [e EXCEPT !.modified = FALSE, !.mutacc = FALSE, !.wrote = FALSE]

\* sync of entry e against device d: [entry, dev, n], n the number of
\* write_block calls made
sync_nowrite(e, d) ==
    IF e.modified
    THEN [entry |-> Flushed(e), dev |-> d, n |-> 0]
    ELSE [entry |-> e, dev |-> d, n |-> 0]

sync(e, d) ==
    IF e.modified
    THEN [entry |-> Flushed(e), dev |-> write_block(d, e.block_id, e.cache), n |-> 1]
    ELSE [entry |-> e, dev |-> d, n |-> 0]

\* Drop for BlockCache: sync, then the buffer is gone
drop_nosync(e, d) == [entry |-> e, dev |-> d, n |-> 0]

drop(e, d) == sync(e, d)

(***************************************************************************)
(* BlockCacheManager.  A world w is [queue, dev, handles, panic] and the   *)
(* history of the calls made since the world was entered: writes counts    *)
(* the write_block calls, evicted those of them made for an entry leaving  *)
(* the queue; mods lists the blocks modify was called on; peak is the most *)
(* clones held at once; nested counts the get_block_cache calls (requests  *)
(* of the manager lock) made while a clone was held, under the entry locks *)
(* taken while the manager lock was held; fs says whether the caller holds *)
(* the filesystem mutex, bare counts the get_block_cache calls made        *)
(* without it; locks lists, for a caller that holds the filesystem mutex,  *)
(* what it did to the manager mutex and to the entry mutexes, in order,    *)
(* and between them what it did to the cache: "get" (the body of           *)
(* get_block_cache), "modify" and "zero" (the closure of modify stores     *)
(* bytes), "sync" (of one entry), "drop" (a clone goes out of scope).      *)
(***************************************************************************)
World(q, d, h, p) ==
    [queue |-> q, dev |-> d, handles |-> h, panic |-> p, writes |-> 0,
     evicted |-> 0, mods |-> <<>>, peak |-> Len(h), nested |-> 0, under |-> 0,
     fs |-> FALSE, bare |-> 0, locks |-> <<>>]

\* the caller of an operation of Inode did evs to the mutexes of the cache
Did(w, evs) == IF w.fs THEN [w EXCEPT !.locks = @ \o evs] ELSE w

IndexOf(q, block_id) ==
    IF \E i \in 1..Len(q) : q[i].block_id = block_id
    THEN CHOOSE i \in 1..Len(q) :
            /\ q[i].block_id = block_id
            /\ \A j \in 1..(i-1) : q[j].block_id # block_id
    ELSE 0

\* the lookup that only finds a block at the front of the queue
Cached_front(q, block_id) == Len(q) > 0 /\ q[1].block_id = block_id

Cached(q, block_id) == IndexOf(q, block_id) # 0

\* Arc::strong_count of the entry of block_id: the queue's own reference
\* plus the clones callers hold
strong_count(h, block_id) ==
    1 + Cardinality({i \in 1..Len(h) : h[i] = block_id})

RemoveAt(q, idx) == SubSeq(q, 1, idx - 1) \o SubSeq(q, idx + 1, Len(q))

\* the queue is at its limit
IsFull_off(q) == Len(q) = BLOCK_CACHE_SIZE + 1

IsFull(q) == Len(q) = BLOCK_CACHE_SIZE

\* from front to tail: the first entry only the queue refers to (0: none)
EvictIdx_any(q, h) ==
    IF Len(q) > 0 THEN 1 ELSE 0

EvictIdx_last(q, h) ==
    IF \E i \in 1..Len(q) : strong_count(h, q[i].block_id) = 1
    THEN CHOOSE i \in 1..Len(q) :
            /\ strong_count(h, q[i].block_id) = 1
            /\ \A j \in (i+1)..Len(q) : strong_count(h, q[j].block_id) # 1
    ELSE 0

EvictIdx(q, h) ==
    IF \E i \in 1..Len(q) : strong_count(h, q[i].block_id) = 1
    THEN CHOOSE i \in 1..Len(q) :
            /\ strong_count(h, q[i].block_id) = 1
            /\ \A j \in 1..(i-1) : strong_count(h, q[j].block_id) # 1
    ELSE 0

\* BLOCK_CACHE_MANAGER.lock(), as get_block_cache takes it: the request is
\* made with the clones and the filesystem mutex the caller holds
manager_lock(w) ==
    Did([w EXCEPT !.nested = IF Len(w.handles) > 0 THEN @ + 1 ELSE @,
                  !.bare = IF w.fs THEN @ ELSE @ + 1],
        << <<"manager", 0>> >>)

\* BLOCK_CACHE_MANAGER.lock(), as block_cache_sync_all takes it
manager_lock_all(w) == Did(w, << <<"manager", 0>> >>)

\* the MutexGuard of the manager is dropped
manager_unlock(w) == Did(w, << <<"unmanager", 0>> >>)

\* .lock() on the Arc<Mutex<BlockCache>> of block_id
entry_lock(w, block_id) == Did(w, << <<"lock", block_id>> >>)

\* the MutexGuard of the entry of block_id is dropped
entry_unlock(w, block_id) == Did(w, << <<"unlock", block_id>> >>)

\* the clone of the entry of block_id is handed to the caller
hand_out(w, block_id) ==
    [w EXCEPT !.handles = Append(@, block_id),
              !.peak = IF Len(w.handles) + 1 > @ THEN Len(w.handles) + 1 ELSE @]

\* the body of BlockCacheManager::get_block_cache, the manager being locked
lookup(w, block_id) ==
    IF Cached(w.queue, block_id)
    THEN hand_out(w, block_id)
    ELSE IF IsFull(w.queue) /\ EvictIdx(w.queue, w.handles) = 0
    THEN [w EXCEPT !.panic = TRUE]
    ELSE
        LET idx == EvictIdx(w.queue, w.handles)
            r   == drop(w.queue[idx], w.dev)
            w1  == IF IsFull(w.queue)
                   THEN [w EXCEPT !.queue = RemoveAt(@, idx),
                                  !.dev = r.dev, !.writes = @ + r.n,
                                  !.evicted = @ + r.n]
                   ELSE w
        IN  hand_out([w1 EXCEPT !.queue = Append(@, BlockCache_new(block_id, w1.dev))],
                     block_id)

\* get_block_cache: BLOCK_CACHE_MANAGER.lock().get_block_cache(block_id);
\* the returned clone is pushed on handles.  Every caller locks the entry
\* in the same expression, get_block_cache(..).lock().read / modify(..),
\* when the guard of the manager is gone
get_block_cache(w, block_id) ==
    IF w.panic THEN w
    ELSE CHOOSE r \in {entry_lock(manager_unlock(
                              Did(lookup(w0, block_id), << <<"get", block_id>> >>)),
                                 block_id) :
                          w0 \in {manager_lock(w)}} : TRUE

\* the most recent clone is dropped
release(w) == [w EXCEPT !.handles = SubSeq(@, 1, Len(@) - 1)]

\* the caller's guard and clone go out of scope at the end of the
\* statement, the guard first (the most recent clone first)
drop_handle(w) ==
    IF w.panic THEN w
    ELSE Did(release(entry_unlock(w, w.handles[Len(w.handles)])),
             << <<"drop", w.handles[Len(w.handles)]>> >>)

\* sync() of the entry at position i of the queue
sync_at(w, i) ==
    LET r == sync(w.queue[i], w.dev)
    IN  [w EXCEPT !.queue[i] = r.entry, !.dev = r.dev, !.writes = @ + r.n]

\* block_cache_sync_all: with the manager locked, cache.lock().sync() for
\* every entry, front to tail, in place
RECURSIVE sync_from(_, _)
sync_from(w, i) ==
    IF i > Len(w.queue) THEN w
    ELSE LET id == w.queue[i].block_id
             w1 == entry_lock([w EXCEPT !.under = @ + 1], id)
         IN  sync_from(entry_unlock(Did(sync_at(w1, i), << <<"sync", id>> >>), id),
                       i + 1)

block_cache_sync_all(w) ==
    IF w.panic THEN w
    ELSE manager_unlock(CHOOSE r \in {sync_from(w0, 1) : w0 \in {manager_lock_all(w)}} : TRUE)

\* lock().read(offset, f) on the entry of block_id: the buffer f sees
cache_of(w, block_id) == w.queue[IndexOf(w.queue, block_id)].cache

\* lock().modify(offset, f) on the entry of block_id, f storing the bytes bs
\* (stores = FALSE: f stores nothing)
modify_entry(e, stores, bs) ==
    LET m == [get_mut(e) EXCEPT !.mutacc = TRUE]
    IN  IF stores
        THEN [m EXCEPT !.cache = StoreBytes(@, bs), !.wrote = TRUE]
        ELSE m

modify(w, block_id, stores, bs) ==
    IF w.panic THEN w
    ELSE LET i == IndexOf(w.queue, block_id)
         IN  Did([w EXCEPT !.queue[i] = modify_entry(@, stores, bs),
                           !.mods = Append(@, block_id)],
                 << <<"modify", block_id, stores, bs>> >>)

(***************************************************************************)
(* Bitmap.  A BitmapBlock is the block's buffer seen as [u64; 64], little  *)
(* endian: bit i of the block is bit i % 8 of byte i \div 8, and bit k of  *)
(* word w is bit 64 * w + k of the block.                                  *)
(***************************************************************************)
BLOCK_BITS == BLOCK_SZ * 8

None == -1

NoBitmap == [start_block_id |-> 0, blocks |-> 0]

NoEfs == [inode_bitmap |-> NoBitmap, data_bitmap |-> NoBitmap,
          inode_area_start_block |-> 0, data_area_start_block |-> 0]

Pow2(n) == 2 ^ n

Bit(blk, i) == (ByteAt(blk, i \div 8) \div Pow2(i % 8)) % 2

\* bits64 == u64::MAX
IsMax(blk, bits64_pos) ==
    \A k \in 0..7 : ByteAt(blk, 8 * bits64_pos + k) = 255

\* bitmap_block.iter().enumerate().find(|(_, bits64)| **bits64 != u64::MAX)
FindWord_last(blk) ==
    IF \E p \in 0..63 : ~IsMax(blk, p)
    THEN CHOOSE p \in 0..63 :
            ~IsMax(blk, p) /\ \A q \in (p + 1)..63 : IsMax(blk, q)
    ELSE None

FindWord(blk) ==
    IF \E p \in 0..63 : ~IsMax(blk, p)
    THEN CHOOSE p \in 0..63 :
            ~IsMax(blk, p) /\ \A q \in 0..(p - 1) : IsMax(blk, q)
    ELSE None

\* bits64.trailing_ones()
trailing_ones(blk, bits64_pos) ==
    CHOOSE n \in 0..64 :
        /\ \A k \in 0..(n - 1) : Bit(blk, 64 * bits64_pos + k) = 1
        /\ n < 64 => Bit(blk, 64 * bits64_pos + n) = 0

\* bitmap_block[bits64_pos] |= 1u64 << inner_pos: the byte that changes
OrBit(blk, bits64_pos, inner_pos) ==
    LET o == 8 * bits64_pos + inner_pos \div 8
        i == 64 * bits64_pos + inner_pos
    IN  [x \in {o} |-> IF Bit(blk, i) = 1 THEN ByteAt(blk, o)
                       ELSE ByteAt(blk, o) + Pow2(inner_pos % 8)]

\* bitmap_block[bits64_pos] -= 1u64 << inner_pos, the bit being set
SubBit(blk, bits64_pos, inner_pos) ==
    LET o == 8 * bits64_pos + inner_pos \div 8
    IN  [x \in {o} |-> ByteAt(blk, o) - Pow2(inner_pos % 8)]

\* A u32 (and the usize a u32 is cast to) past I32_MAX is written as the
\* negative integer with the same low 32 bits: 2^32 - m is written -m.  Sums
\* and differences of such numbers are then the wrapping ones of a release
\* build, and so is the remainder by a power of two; the quotient is not.
I32_MAX == 2147483647

\* a / b of a u32 a and b > 0
U32Div(a, b) ==
    IF a >= 0 THEN a \div b
    ELSE LET t == I32_MAX + (a + 1)
         IN  (I32_MAX \div b) + (t \div b)
                 + (((I32_MAX % b) + (t % b) + 1) \div b)

decomposition(bit) ==
    [block_pos  |-> U32Div(bit, BLOCK_BITS),
     bits64_pos |-> (bit % BLOCK_BITS) \div 64,
     inner_pos  |-> (bit % BLOCK_BITS) % 64]

Bitmap_new(start_block_id, blocks) ==
    [start_block_id |-> start_block_id, blocks |-> blocks]

maximum(bm) == bm.blocks * BLOCK_BITS

\* Bitmap::alloc that only reads a block without a clear bit and calls
\* modify on the block it takes the bit from
RECURSIVE alloc_from_peek(_, _, _)
alloc_from_peek(w, bm, block_id) ==
    IF w.panic \/ block_id >= bm.blocks THEN [w |-> w, ret |-> None]
    ELSE
        LET id  == block_id + bm.start_block_id
            w1  == get_block_cache(w, id)
            blk == cache_of(w1, id)
            bits64_pos == FindWord(blk)
            inner_pos  == trailing_ones(blk, bits64_pos)
            w2  == IF bits64_pos = None
                   THEN w1
                   ELSE modify(w1, id, TRUE, OrBit(blk, bits64_pos, inner_pos))
            w3  == drop_handle(w2)
        IN  IF w1.panic THEN [w |-> w1, ret |-> None]
            ELSE IF bits64_pos # None
            THEN [w |-> w3,
                  ret |-> block_id * BLOCK_BITS + bits64_pos * 64 + inner_pos]
            ELSE alloc_from_peek(w3, bm, block_id + 1)

\* Bitmap::alloc from block block_id on: [w, ret], ret the bit or None
RECURSIVE alloc_from(_, _, _)
alloc_from(w, bm, block_id) ==
    IF w.panic \/ block_id >= bm.blocks THEN [w |-> w, ret |-> None]
    ELSE
        LET id  == block_id + bm.start_block_id
            w1  == get_block_cache(w, id)
            blk == cache_of(w1, id)
            bits64_pos == FindWord(blk)
            inner_pos  == trailing_ones(blk, bits64_pos)
            w2  == IF bits64_pos = None
                   THEN modify(w1, id, FALSE, ZeroBlock)
                   ELSE modify(w1, id, TRUE, OrBit(blk, bits64_pos, inner_pos))
            w3  == drop_handle(w2)
        IN  IF w1.panic THEN [w |-> w1, ret |-> None]
            ELSE IF bits64_pos # None
            THEN [w |-> w3,
                  ret |-> block_id * BLOCK_BITS + bits64_pos * 64 + inner_pos]
            ELSE alloc_from(w3, bm, block_id + 1)

Bitmap_alloc(w, bm) == alloc_from(w, bm, 0)

\* Bitmap::dealloc
Bitmap_dealloc_noassert(w, bm, bit) ==
    IF w.panic THEN w
    ELSE
        LET p   == decomposition(bit)
            id  == p.block_pos + bm.start_block_id
            w1  == get_block_cache(w, id)
            blk == cache_of(w1, id)
            w2  == IF Bit(blk, bit % BLOCK_BITS) = 1
                   THEN modify(w1, id, TRUE, SubBit(blk, p.bits64_pos, p.inner_pos))
                   ELSE modify(w1, id, FALSE, ZeroBlock)
        IN  IF w1.panic THEN w1 ELSE drop_handle(w2)

Bitmap_dealloc(w, bm, bit) ==
    IF w.panic THEN w
    ELSE
        LET p   == decomposition(bit)
            id  == p.block_pos + bm.start_block_id
            w1  == get_block_cache(w, id)
            blk == cache_of(w1, id)
            ok  == Bit(blk, 64 * p.bits64_pos + p.inner_pos) = 1
            w2  == IF ok
                   THEN modify(w1, id, TRUE, SubBit(blk, p.bits64_pos, p.inner_pos))
                   ELSE [modify(w1, id, FALSE, ZeroBlock) EXCEPT !.panic = TRUE]
        IN  IF w1.panic THEN w1 ELSE IF ok THEN drop_handle(w2) ELSE w2

(***************************************************************************)
(* On-disk layout (layout.rs): SuperBlock, DiskInode, DirEntry, after the  *)
(* specification's sections 3 and 4.4.  All integers on disk are u32,      *)
(* little endian.                                                          *)
(***************************************************************************)
EFS_MAGIC == 998244353

INODE_DIRECT_COUNT == 28

DISK_INODE_SZ == 128

DIRENT_SZ == 32

NAME_LENGTH_LIMIT == 27

File == 0

Directory == 1

INODE_INDIRECT1_COUNT == BLOCK_SZ \div 4

DIRECT_BOUND == INODE_DIRECT_COUNT

INDIRECT1_BOUND == DIRECT_BOUND + INODE_INDIRECT1_COUNT

Min(a, b) == IF a < b THEN a ELSE b

\* the u32 at offset o of a block
U32At(blk, o) ==
    ByteAt(blk, o) + 256 * ByteAt(blk, o + 1) + 65536 * ByteAt(blk, o + 2)
        + 16777216 * (IF ByteAt(blk, o + 3) < 128 THEN ByteAt(blk, o + 3)
                      ELSE ByteAt(blk, o + 3) - 256)

\* the bytes of the u32 v, stored at offset o
Put32(o, v) == [x \in o..(o + 3) |-> (v \div (256 ^ (x - o))) % 256]

\* SuperBlock::initialize: the six fields in order
SuperBlock_initialize(device_blocks, inode_bitmap_blocks, inode_area_blocks, data_bitmap_blocks, data_area_blocks) ==
    Put32(0, EFS_MAGIC) @@ Put32(4, device_blocks)
        @@ Put32(8, inode_bitmap_blocks) @@ Put32(12, inode_area_blocks)
        @@ Put32(16, data_bitmap_blocks) @@ Put32(20, data_area_blocks)

SuperBlock_is_valid(blk) == U32At(blk, 0) = EFS_MAGIC

\* a DiskInode lives at pos = [block_id, block_offset]; its fields, read
\* from the buffer blk of its block
Inode_size(blk, pos) == U32At(blk, pos.block_offset)

Inode_direct(blk, pos, i) == U32At(blk, pos.block_offset + 4 + 4 * i)

Inode_indirect1(blk, pos) == U32At(blk, pos.block_offset + 116)

Inode_indirect2(blk, pos) == U32At(blk, pos.block_offset + 120)

Inode_type(blk, pos) == ByteAt(blk, pos.block_offset + 124)

is_dir(blk, pos) == Inode_type(blk, pos) = Directory

\* DiskInode::initialize: size 0, all pointers 0, the type
DiskInode_initialize(pos, type) ==
    [o \in pos.block_offset..(pos.block_offset + 124) |->
        IF o = pos.block_offset + 124 THEN type ELSE 0]

\* number of data blocks holding size bytes
data_blocks(size) == (size + BLOCK_SZ - 1) \div BLOCK_SZ

\* data blocks plus the indirect blocks that index them, for n data blocks
blocks_for(n) ==
    n + (IF n > DIRECT_BOUND THEN 1 ELSE 0)
      + (IF n > INDIRECT1_BOUND
         THEN 1 + (n - INDIRECT1_BOUND + INODE_INDIRECT1_COUNT - 1)
                      \div INODE_INDIRECT1_COUNT
         ELSE 0)

total_blocks(size) == blocks_for(data_blocks(size))

\* DiskInode::blocks_num_needed
blocks_num_needed(size, new_size) == total_blocks(new_size) - total_blocks(size)

Max(a, b) == IF a > b THEN a ELSE b

\* F of the value of e, e evaluated once
Bind(e, F(_)) == CHOOSE r \in {F(x) : x \in {e}} : TRUE

\* the bytes of the u32 table entries K, entry k holding F(k), the table
\* starting at offset base
TableBytes(base, K, F(_)) ==
    [o \in UNION {(base + 4 * k)..(base + 4 * k + 3) : k \in K} |->
        (F((o - base) \div 4) \div (256 ^ ((o - base) % 4))) % 256]

\* table entries lo..hi of the block buffer blk (table at offset base), in
\* order
TableIds(blk, base, lo, hi) ==
    [i \in 1..(hi - lo + 1) |-> U32At(blk, base + 4 * (lo + i - 1))]

\* lock().modify on the entry of block_id, f storing the bytes bs
store(w, block_id, bs) ==
    Bind(bs, LAMBDA b : modify(w, block_id, DOMAIN b # {}, b))

\* get_block_cache(block_id).lock().modify(0, f), f storing the bytes bs;
\* the clone is dropped
modify_block(w, block_id, bs) ==
    Bind(get_block_cache(w, block_id), LAMBDA w1 :
        IF w1.panic THEN w1
        ELSE Bind(store(w1, block_id, bs), LAMBDA w2 : drop_handle(w2)))

\* get_block_cache(block_id).lock().read(0, |t: &IndirectBlock| t[i]):
\* [w, id]
read_entry(w, block_id, i) ==
    IF w.panic THEN [w |-> w, id |-> 0]
    ELSE Bind(get_block_cache(w, block_id), LAMBDA w1 :
            IF w1.panic THEN [w |-> w1, id |-> 0]
            ELSE [w  |-> drop_handle(w1),
                  id |-> U32At(cache_of(w1, block_id), 4 * i)])

\* DiskInode::get_block_id: the device block of logical block inner_id,
\* [w, id]; the inode's block is held by the caller
get_block_id(w, pos, inner_id) ==
    IF w.panic THEN [w |-> w, id |-> 0]
    ELSE IF inner_id < DIRECT_BOUND
    THEN [w |-> w, id |-> Inode_direct(cache_of(w, pos.block_id), pos, inner_id)]
    ELSE IF inner_id < INDIRECT1_BOUND
    THEN read_entry(w, Inode_indirect1(cache_of(w, pos.block_id), pos),
                    inner_id - DIRECT_BOUND)
    ELSE Bind(read_entry(w, Inode_indirect2(cache_of(w, pos.block_id), pos),
                         (inner_id - INDIRECT1_BOUND) \div INODE_INDIRECT1_COUNT),
              LAMBDA s : read_entry(s.w, s.id,
                         (inner_id - INDIRECT1_BOUND) % INODE_INDIRECT1_COUNT))

\* growing from cur data blocks, the new blocks are taken from the vector
\* in logical-block order, each indirect block just before the first data
\* block it indexes: the position in the vector of data block k
SlotOf(cur, k) == blocks_for(k + 1) - blocks_for(cur)

\* fill the single-indirect blocks a..last_a of the double-indirect block
\* i2 (held by the caller): data blocks cur..tot-1 take their ids from v
RECURSIVE fill_indirect2(_, _, _, _, _, _, _)
fill_indirect2(w, i2, a, last_a, cur, tot, v) ==
    IF w.panic \/ a > last_a THEN w
    ELSE
        LET first == INDIRECT1_BOUND + INODE_INDIRECT1_COUNT * a
            sub == U32At(cache_of(w, i2), 4 * a)
            K   == (Max(cur, first) - first)
                       ..(Min(tot, first + INODE_INDIRECT1_COUNT) - first - 1)
            F(b) == v[SlotOf(cur, first + b)]
        IN  Bind(modify_block(w, sub, TableBytes(0, K, F)), LAMBDA w1 :
                fill_indirect2(w1, i2, a + 1, last_a, cur, tot, v))

\* DiskInode::increase_size(new_size, new_blocks): the inode's block is held
\* by the caller
DiskInode_increase_size(w, pos, new_size, v) ==
    IF w.panic THEN w
    ELSE
    LET ino == cache_of(w, pos.block_id)
        cur == data_blocks(Inode_size(ino, pos))
        tot == data_blocks(new_size)
        off == pos.block_offset
        D(k) == v[SlotOf(cur, k)]
        new1 == cur <= DIRECT_BOUND /\ DIRECT_BOUND < tot
        new2 == cur <= INDIRECT1_BOUND /\ INDIRECT1_BOUND < tot
        i1 == IF new1 THEN v[SlotOf(cur, DIRECT_BOUND) - 1]
              ELSE Inode_indirect1(ino, pos)
        i2 == IF new2 THEN v[SlotOf(cur, INDIRECT1_BOUND) - 2]
              ELSE Inode_indirect2(ino, pos)
        K1 == (Max(cur, DIRECT_BOUND) - DIRECT_BOUND)
                  ..(Min(tot, INDIRECT1_BOUND) - DIRECT_BOUND - 1)
        F1(b) == v[SlotOf(cur, DIRECT_BOUND + b)]
        cur2 == Max(cur, INDIRECT1_BOUND) - INDIRECT1_BOUND
        tot2 == tot - INDIRECT1_BOUND
        a0 == cur2 \div INODE_INDIRECT1_COUNT
        a1 == (tot2 - 1) \div INODE_INDIRECT1_COUNT
        A  == {a \in a0..a1 : cur2 <= INODE_INDIRECT1_COUNT * a}
        F2(a) == v[SlotOf(cur, INDIRECT1_BOUND + INODE_INDIRECT1_COUNT * a) - 1]
    IN  Bind(store(w, pos.block_id,
                   Put32(off, new_size)
                   @@ TableBytes(off + 4, cur..(Min(tot, DIRECT_BOUND) - 1), D)
                   @@ (IF new1 THEN Put32(off + 116, i1) ELSE ZeroBlock)
                   @@ (IF new2 THEN Put32(off + 120, i2) ELSE ZeroBlock)),
        LAMBDA w1 :
        IF tot <= DIRECT_BOUND THEN w1
        ELSE Bind(modify_block(w1, i1, TableBytes(0, K1, F1)), LAMBDA w2 :
        IF tot <= INDIRECT1_BOUND THEN w2
        ELSE Bind(get_block_cache(w2, i2), LAMBDA w3 :
        IF w3.panic THEN w3
        ELSE Bind(store(w3, i2, TableBytes(0, A, F2)), LAMBDA w4 :
             Bind(fill_indirect2(w4, i2, a0, a1, cur, tot, v), LAMBDA w5 :
                  drop_handle(w5))))))

\* empty the single-indirect blocks a..last_a of the double-indirect block
\* i2 (held by the caller) of the data blocks tot..cur-1: [w, v]
RECURSIVE drain_indirect2(_, _, _, _, _, _, _)
drain_indirect2(w, i2, a, last_a, cur, tot, acc) ==
    IF w.panic \/ a > last_a THEN [w |-> w, v |-> acc]
    ELSE
        LET first == INDIRECT1_BOUND + INODE_INDIRECT1_COUNT * a
            sub == U32At(cache_of(w, i2), 4 * a)
            lo  == Max(tot, first) - first
            hi  == Min(cur, first + INODE_INDIRECT1_COUNT) - first - 1
            gone == IF tot <= first THEN <<sub>> ELSE <<>>
        IN  Bind(get_block_cache(w, sub), LAMBDA w1 :
            IF w1.panic THEN [w |-> w1, v |-> acc]
            ELSE Bind(acc \o gone \o TableIds(cache_of(w1, sub), 0, lo, hi),
                 LAMBDA ids :
                 Bind(store(w1, sub, TableBytes(0, lo..hi, LAMBDA b : 0)),
                 LAMBDA w2 :
                 Bind(drop_handle(w2), LAMBDA w3 :
                      drain_indirect2(w3, i2, a + 1, last_a, cur, tot, ids)))))

\* DiskInode::decrease_size(new_size): the freed blocks in logical-block
\* order, each indirect block before the data blocks it indexed, [w, v];
\* the inode's block is held by the caller
DiskInode_decrease_size(w, pos, new_size) ==
    IF w.panic THEN [w |-> w, v |-> <<>>]
    ELSE
    LET ino == cache_of(w, pos.block_id)
        cur == data_blocks(Inode_size(ino, pos))
        tot == data_blocks(new_size)
        off == pos.block_offset
        i1  == Inode_indirect1(ino, pos)
        i2  == Inode_indirect2(ino, pos)
        free1 == tot <= DIRECT_BOUND /\ DIRECT_BOUND < cur
        free2 == tot <= INDIRECT1_BOUND /\ INDIRECT1_BOUND < cur
        dhi == Min(cur, DIRECT_BOUND) - 1
        lo1 == Max(tot, DIRECT_BOUND) - DIRECT_BOUND
        hi1 == Min(cur, INDIRECT1_BOUND) - DIRECT_BOUND - 1
        cur2 == cur - INDIRECT1_BOUND
        tot2 == Max(tot, INDIRECT1_BOUND) - INDIRECT1_BOUND
        a0  == tot2 \div INODE_INDIRECT1_COUNT
        a1  == (cur2 - 1) \div INODE_INDIRECT1_COUNT
        A   == {a \in a0..a1 : tot2 <= INODE_INDIRECT1_COUNT * a}
        \* the single-indirect level
        Level1(w1, vd) ==
            IF cur <= DIRECT_BOUND \/ hi1 < lo1 THEN [w |-> w1, v |-> vd]
            ELSE Bind(get_block_cache(w1, i1), LAMBDA w2 :
                 IF w2.panic THEN [w |-> w2, v |-> vd]
                 ELSE Bind(vd \o (IF free1 THEN <<i1>> ELSE <<>>)
                              \o TableIds(cache_of(w2, i1), 0, lo1, hi1),
                      LAMBDA v1 :
                      Bind(store(w2, i1, TableBytes(0, lo1..hi1, LAMBDA b : 0)),
                      LAMBDA w3 : [w |-> drop_handle(w3), v |-> v1])))
        \* the double-indirect level
        Level2(s1) ==
            IF cur <= INDIRECT1_BOUND \/ tot >= cur \/ s1.w.panic THEN s1
            ELSE Bind(get_block_cache(s1.w, i2), LAMBDA w4 :
                 IF w4.panic THEN [w |-> w4, v |-> s1.v]
                 ELSE Bind(drain_indirect2(w4, i2, a0, a1, cur, tot,
                               s1.v \o (IF free2 THEN <<i2>> ELSE <<>>)),
                      LAMBDA r :
                      IF r.w.panic THEN r
                      ELSE Bind(store(r.w, i2, TableBytes(0, A, LAMBDA a : 0)),
                           LAMBDA w5 : [w |-> drop_handle(w5), v |-> r.v])))
    IN  Bind(store(w, pos.block_id,
                   Put32(off, new_size)
                   @@ TableBytes(off + 4, tot..dhi, LAMBDA k : 0)
                   @@ (IF free1 THEN Put32(off + 116, 0) ELSE ZeroBlock)
                   @@ (IF free2 THEN Put32(off + 120, 0) ELSE ZeroBlock)),
        LAMBDA w1 :
        Bind(Level1(w1, TableIds(ino, off + 4, tot, dhi)), LAMBDA s1 :
             Level2(s1)))

\* DiskInode::clear_size
DiskInode_clear_size(w, pos) == DiskInode_decrease_size(w, pos, 0)

\* the block boundary that halves the blocks of the bytes start..end-1
MidBlock(start, end) ==
    ((start \div BLOCK_SZ + (end - 1) \div BLOCK_SZ + 1) \div 2) * BLOCK_SZ

\* DiskInode::read_at, block by block: the bytes start..end-1 of the file,
\* appended to acc; the blocks are visited in order, the first half of them
\* and then the second
RECURSIVE read_blocks(_, _, _, _, _)
read_blocks(w, pos, start, end, acc) ==
    IF w.panic \/ start >= end THEN [w |-> w, data |-> acc]
    ELSE IF start \div BLOCK_SZ = (end - 1) \div BLOCK_SZ
    THEN Bind(get_block_id(w, pos, start \div BLOCK_SZ), LAMBDA g :
         IF g.w.panic THEN [w |-> g.w, data |-> acc]
         ELSE Bind(get_block_cache(g.w, g.id), LAMBDA w1 :
         IF w1.panic THEN [w |-> w1, data |-> acc]
         ELSE [w    |-> drop_handle(w1),
               data |-> acc \o [i \in 1..(end - start) |->
                                   ByteAt(cache_of(w1, g.id),
                                          (start % BLOCK_SZ) + i - 1)]]))
    ELSE CHOOSE s2 \in {read_blocks(s.w, pos, MidBlock(start, end), end, s.data) :
                s \in {read_blocks(w, pos, start, MidBlock(start, end), acc)}} : TRUE

\* DiskInode::read_at(offset, buf) with |buf| = len: [w, n, data], data the
\* n bytes read
DiskInode_read_at(w, pos, offset, len) ==
    IF w.panic THEN [w |-> w, n |-> 0, data |-> <<>>]
    ELSE Bind(read_blocks(w, pos, offset,
                  Min(offset + len, Inode_size(cache_of(w, pos.block_id), pos)),
                  <<>>),
              LAMBDA r : [w |-> r.w, n |-> Len(r.data), data |-> r.data])

\* DiskInode::write_at, block by block; done: bytes of buf written so far;
\* the blocks are visited in order, the first half of them and then the
\* second
RECURSIVE write_blocks(_, _, _, _, _, _)
write_blocks(w, pos, start, end, buf, done) ==
    IF w.panic \/ start >= end THEN [w |-> w, n |-> done]
    ELSE IF start \div BLOCK_SZ = (end - 1) \div BLOCK_SZ
    THEN LET n   == end - start
             dst == [o \in (start % BLOCK_SZ)..((start % BLOCK_SZ) + n - 1) |->
                        buf[done + 1 + o - (start % BLOCK_SZ)]]
         IN  Bind(get_block_id(w, pos, start \div BLOCK_SZ), LAMBDA g :
             IF g.w.panic THEN [w |-> g.w, n |-> done]
             ELSE [w |-> modify_block(g.w, g.id, dst), n |-> done + n])
    ELSE CHOOSE s2 \in {write_blocks(s.w, pos, MidBlock(start, end), end, buf, s.n) :
                s \in {write_blocks(w, pos, start, MidBlock(start, end), buf, done)}} : TRUE

\* DiskInode::write_at(offset, buf): [w, n]
DiskInode_write_at(w, pos, offset, buf) ==
    LET size == Inode_size(cache_of(w, pos.block_id), pos)
        end  == Min(offset + Len(buf), size)
    IN  IF w.panic THEN [w |-> w, n |-> 0]
        ELSE IF offset > end THEN [w |-> [w EXCEPT !.panic = TRUE], n |-> 0]
        ELSE write_blocks(w, pos, offset, end, buf, 0)

\* DirEntry: 28 bytes of name, null padded, and the inode number.  A name
\* is the sequence of its bytes.
DirEntry_new(name, inode_number) ==
    [i \in 1..DIRENT_SZ |->
        IF i <= Len(name) THEN name[i]
        ELSE IF i <= NAME_LENGTH_LIMIT + 1 THEN 0
        ELSE (inode_number \div (256 ^ (i - NAME_LENGTH_LIMIT - 2))) % 256]

\* DirEntry::name: the bytes before the first null
DirEntry_name(dirent) ==
    LET len == CHOOSE n \in 0..(NAME_LENGTH_LIMIT + 1) :
                   /\ \A i \in 1..n : dirent[i] # 0
                   /\ n <= NAME_LENGTH_LIMIT => dirent[n + 1] = 0
    IN  SubSeq(dirent, 1, len)

DirEntry_inode_number(dirent) ==
    dirent[29] + 256 * dirent[30] + 65536 * dirent[31] + 16777216 * dirent[32]

(***************************************************************************)
(* EasyFileSystem (efs.rs)                                                 *)
(***************************************************************************)
\* get_block_cache(i).lock().modify(0, |data_block| every byte = 0)
zero_entry(w, block_id) ==
    Did([w EXCEPT !.queue[IndexOf(w.queue, block_id)] =
            [modify_entry(@, FALSE, ZeroBlock) EXCEPT
                 !.cache = ZeroBlock, !.wrote = TRUE]],
        << <<"zero", block_id>> >>)

zero_block(w, block_id) ==
    Bind(get_block_cache(w, block_id), LAMBDA w1 :
        IF w1.panic THEN w1
        ELSE Bind(zero_entry(w1, block_id), LAMBDA w2 : drop_handle(w2)))

\* for i in lo..hi-1: zero block i; the first half of the blocks and then
\* the others
RECURSIVE clear_blocks(_, _, _)
clear_blocks(w, lo, hi) ==
    CASE lo >= hi \/ w.panic -> w
      [] lo < hi /\ ~w.panic /\ hi = lo + 1 -> zero_block(w, lo)
      [] OTHER ->
            CHOOSE w2 \in {clear_blocks(w1, (lo + hi) \div 2, hi) :
                              w1 \in {clear_blocks(w, lo, (lo + hi) \div 2)}} : TRUE

\* the layout with the data bitmap blocks rounded down
Layout_floor(device_blocks, inode_bitmap_blocks) ==
    LET inode_num == maximum(Bitmap_new(1, inode_bitmap_blocks))
        inode_area_blocks ==
            (inode_num * DISK_INODE_SZ + BLOCK_SZ - 1) \div BLOCK_SZ
        inode_total_blocks == inode_bitmap_blocks + inode_area_blocks
        data_total_blocks == device_blocks - 1 - inode_total_blocks
        data_bitmap_blocks == U32Div(data_total_blocks, 4097)
    IN  [panic              |-> overflow_checks /\ data_total_blocks < 0,
         inode_area_blocks  |-> inode_area_blocks,
         inode_total_blocks |-> inode_total_blocks,
         data_total_blocks  |-> data_total_blocks,
         data_bitmap_blocks |-> data_bitmap_blocks,
         data_area_blocks   |-> data_total_blocks - data_bitmap_blocks]

\* the layout create computes from its arguments (device_blocks stands for
\* total_blocks).  total_blocks - 1 - inode_total_blocks is a u32 difference:
\* below zero it panics where overflow is checked (panic: none of the fields
\* after it is computed) and wraps elsewhere, and then data_total_blocks +
\* 4096 may wrap as well
Layout(device_blocks, inode_bitmap_blocks) ==
    LET inode_num == maximum(Bitmap_new(1, inode_bitmap_blocks))
        inode_area_blocks ==
            (inode_num * DISK_INODE_SZ + BLOCK_SZ - 1) \div BLOCK_SZ
        inode_total_blocks == inode_bitmap_blocks + inode_area_blocks
        data_total_blocks == device_blocks - 1 - inode_total_blocks
        data_bitmap_blocks == U32Div(data_total_blocks + 4096, 4097)
    IN  [panic              |-> overflow_checks /\ data_total_blocks < 0,
         inode_area_blocks  |-> inode_area_blocks,
         inode_total_blocks |-> inode_total_blocks,
         data_total_blocks  |-> data_total_blocks,
         data_bitmap_blocks |-> data_bitmap_blocks,
         data_area_blocks   |-> data_total_blocks - data_bitmap_blocks]

get_disk_inode_pos(fs, inode_id) ==
    LET inodes_per_block == BLOCK_SZ \div DISK_INODE_SZ
    IN  [block_id     |-> fs.inode_area_start_block + inode_id \div inodes_per_block,
         block_offset |-> (inode_id % inodes_per_block) * DISK_INODE_SZ]

get_data_block_id(fs, data_block_id) == fs.data_area_start_block + data_block_id

\* alloc_inode that returns the bit found and leaves it clear
alloc_inode_unmarked(w, fs) ==
    [w |-> w, ret |-> Bitmap_alloc(w, fs.inode_bitmap).ret]

\* alloc_inode: [w, ret]; unwrap panics on None
alloc_inode(w, fs) ==
    Bind(Bitmap_alloc(w, fs.inode_bitmap), LAMBDA r :
        IF r.ret = None THEN [w |-> [r.w EXCEPT !.panic = TRUE], ret |-> None]
        ELSE r)

\* alloc_data that returns the block of the bit found and leaves the bit
\* clear
alloc_data_unmarked(w, fs) ==
    [w |-> w,
     ret |-> Bitmap_alloc(w, fs.data_bitmap).ret + fs.data_area_start_block]

\* alloc_data: [w, ret]
alloc_data(w, fs) ==
    Bind(Bitmap_alloc(w, fs.data_bitmap), LAMBDA r :
        IF r.ret = None THEN [w |-> [r.w EXCEPT !.panic = TRUE], ret |-> None]
        ELSE [w |-> r.w, ret |-> r.ret + fs.data_area_start_block])

\* dealloc_data that zeroes the block and leaves its bit set
dealloc_data_keep(w, fs, block_id) == zero_block(w, block_id)

\* dealloc_data: zero the block, clear its bit.  For a block below the data
\* area the u32 difference panics where overflow is checked and wraps
\* elsewhere: Bitmap::dealloc then has a bit near 2^32
dealloc_data(w, fs, block_id) ==
    Bind(zero_block(w, block_id), LAMBDA w1 :
        IF w1.panic THEN w1
        ELSE IF block_id < fs.data_area_start_block /\ overflow_checks
        THEN [w1 EXCEPT !.panic = TRUE]
        ELSE Bitmap_dealloc(w1, fs.data_bitmap,
                            block_id - fs.data_area_start_block))

\* EasyFileSystem::create: [w, fs]
EasyFileSystem_create(w, device_blocks, inode_bitmap_blocks) ==
    LET l  == Layout(device_blocks, inode_bitmap_blocks)
        fs == [inode_bitmap |-> Bitmap_new(1, inode_bitmap_blocks),
               data_bitmap  |-> Bitmap_new(1 + inode_bitmap_blocks + l.inode_area_blocks,
                                           l.data_bitmap_blocks),
               inode_area_start_block |-> 1 + inode_bitmap_blocks,
               data_area_start_block  |->
                   1 + l.inode_total_blocks + l.data_bitmap_blocks]
        root == get_disk_inode_pos(fs, 0)
    IN  IF l.panic THEN [w |-> [w EXCEPT !.panic = TRUE], fs |-> NoEfs]
        ELSE
        Bind(clear_blocks(w, 0, device_blocks), LAMBDA w1 :
        Bind(modify_block(w1, 0,
                 SuperBlock_initialize(device_blocks, inode_bitmap_blocks,
                     l.inode_area_blocks, l.data_bitmap_blocks,
                     l.data_area_blocks)), LAMBDA w2 :
        Bind(alloc_inode(w2, fs), LAMBDA a :
        Bind(IF a.ret # 0 THEN [a.w EXCEPT !.panic = TRUE] ELSE a.w, LAMBDA w3 :
        Bind(modify_block(w3, root.block_id, DiskInode_initialize(root, Directory)),
             LAMBDA w4 : [w |-> block_cache_sync_all(w4), fs |-> fs])))))

\* EasyFileSystem::open with the data bitmap placed right behind the inode
\* bitmap: [w, fs]
EasyFileSystem_open_nodata(w) ==
    Bind(get_block_cache(w, 0), LAMBDA w1 :
        LET sb == cache_of(w1, 0)
            inode_bitmap_blocks == U32At(sb, 8)
        IN  IF w1.panic THEN [w |-> w1, fs |-> NoEfs]
            ELSE IF ~SuperBlock_is_valid(sb)
            THEN [w |-> [w1 EXCEPT !.panic = TRUE], fs |-> NoEfs]
            ELSE [w  |-> drop_handle(w1),
                  fs |-> [inode_bitmap |-> Bitmap_new(1, inode_bitmap_blocks),
                          data_bitmap  |-> Bitmap_new(1 + inode_bitmap_blocks,
                                                      U32At(sb, 16)),
                          inode_area_start_block |-> 1 + inode_bitmap_blocks,
                          data_area_start_block  |->
                              1 + inode_bitmap_blocks + U32At(sb, 16)]])

\* EasyFileSystem::open: [w, fs]
EasyFileSystem_open(w) ==
    Bind(get_block_cache(w, 0), LAMBDA w1 :
        LET sb == cache_of(w1, 0)
            inode_bitmap_blocks == U32At(sb, 8)
            inode_area_blocks   == U32At(sb, 12)
            data_bitmap_blocks  == U32At(sb, 16)
            inode_total_blocks  == inode_bitmap_blocks + inode_area_blocks
        IN  IF w1.panic THEN [w |-> w1, fs |-> NoEfs]
            ELSE IF ~SuperBlock_is_valid(sb)
            THEN [w |-> [w1 EXCEPT !.panic = TRUE], fs |-> NoEfs]
            ELSE [w  |-> drop_handle(w1),
                  fs |-> [inode_bitmap |-> Bitmap_new(1, inode_bitmap_blocks),
                          data_bitmap  |-> Bitmap_new(1 + inode_total_blocks,
                                                      data_bitmap_blocks),
                          inode_area_start_block |-> 1 + inode_bitmap_blocks,
                          data_area_start_block  |->
                              1 + inode_total_blocks + data_bitmap_blocks]])

\* EasyFileSystem::root_inode
root_inode(fs) == get_disk_inode_pos(fs, 0)

(***************************************************************************)
(* Inode, the vnode layer (vfs.rs).  An Inode is the position of its       *)
(* DiskInode, [block_id, block_offset].  read_disk_inode and               *)
(* modify_disk_inode hold the clone of the inode's block while f runs.     *)
(***************************************************************************)
\* get_block_cache(self.block_id).lock() for read(self.block_offset, f)
enter_read(w, self) == get_block_cache(w, self.block_id)

\* get_block_cache(self.block_id).lock() for modify(self.block_offset, f)
enter_modify(w, self) ==
    Bind(get_block_cache(w, self.block_id), LAMBDA w1 :
        IF w1.panic THEN w1 ELSE modify(w1, self.block_id, FALSE, ZeroBlock))

\* the disk inode as f sees it
disk_inode(w, self) == cache_of(w, self.block_id)

\* find_inode_id from dirent i on: [w, ret]
RECURSIVE find_from(_, _, _, _, _)
find_from(w, self, name, i, file_count) ==
    IF w.panic \/ i >= file_count THEN [w |-> w, ret |-> None]
    ELSE Bind(DiskInode_read_at(w, self, DIRENT_SZ * i, DIRENT_SZ), LAMBDA r :
            IF r.w.panic THEN [w |-> r.w, ret |-> None]
            ELSE IF r.n # DIRENT_SZ
            THEN [w |-> [r.w EXCEPT !.panic = TRUE], ret |-> None]
            ELSE IF DirEntry_inode_number(r.data) # 0 /\ DirEntry_name(r.data) = name
            THEN [w |-> r.w, ret |-> DirEntry_inode_number(r.data)]
            ELSE find_from(r.w, self, name, i + 1, file_count))

\* Inode::find_inode_id: [w, ret]
find_inode_id(w, self, name) ==
    IF w.panic THEN [w |-> w, ret |-> None]
    ELSE IF ~is_dir(disk_inode(w, self), self)
    THEN [w |-> [w EXCEPT !.panic = TRUE], ret |-> None]
    ELSE find_from(w, self, name, 0,
                   Inode_size(disk_inode(w, self), self) \div DIRENT_SZ)

\* an operation that does not take the filesystem mutex
fs_lock_skip(w) == w

\* self.fs.lock(), the first statement of every operation of Inode: the
\* caller holds the filesystem mutex from here on
fs_lock(w) == [w EXCEPT !.fs = TRUE]

\* the MutexGuard goes out of scope when the operation returns
fs_unlock(w) == [w EXCEPT !.fs = FALSE]

\* the result r = [w, ..] of an operation, returned
Returned(r) == [r EXCEPT !.w = fs_unlock(@)]

\* Inode::find: [w, ret], ret the inode id found or None
Inode_find(w, fs, self, name) ==
    Returned(Bind(enter_read(fs_lock(w), self), LAMBDA w1 :
    Bind(find_inode_id(w1, self, name), LAMBDA r :
         [w |-> drop_handle(r.w), ret |-> r.ret])))

\* for _ in 0..blocks_needed: v.push(fs.alloc_data()): [w, v]; n pushes
\* are the first n \div 2 of them and then the others
RECURSIVE alloc_blocks(_, _, _, _)
alloc_blocks(w, fs, n, v) ==
    IF w.panic \/ n = 0 THEN [w |-> w, v |-> v]
    ELSE IF n = 1
    THEN Bind(alloc_data(w, fs), LAMBDA a : [w |-> a.w, v |-> Append(v, a.ret)])
    ELSE CHOOSE s2 \in {alloc_blocks(s.w, fs, n - n \div 2, s.v) :
                           s \in {alloc_blocks(w, fs, n \div 2, v)}} : TRUE

\* Inode::increase_size without the allocation and the growth
increase_size_never(w, fs, self, new_size) == w

\* Inode::increase_size, inside modify_disk_inode
increase_size(w, fs, self, new_size) ==
    IF w.panic THEN w
    ELSE
    LET size == Inode_size(disk_inode(w, self), self)
    IN  IF new_size < size THEN w
        ELSE Bind(alloc_blocks(w, fs, blocks_num_needed(size, new_size), <<>>),
                  LAMBDA a : DiskInode_increase_size(a.w, self, new_size, a.v))

\* for data_block in data_blocks_dealloc: fs.dealloc_data(data_block), for
\* the blocks v[lo] .. v[hi - 1]: the first half of them and then the others
RECURSIVE dealloc_blocks(_, _, _, _, _)
dealloc_blocks(w, fs, v, lo, hi) ==
    IF w.panic \/ lo >= hi THEN w
    ELSE IF hi = lo + 1 THEN dealloc_data(w, fs, v[lo])
    ELSE CHOOSE w2 \in {dealloc_blocks(w1, fs, v, (lo + hi) \div 2, hi) :
                           w1 \in {dealloc_blocks(w, fs, v, lo, (lo + hi) \div 2)}} : TRUE

\* Inode::decrease_size that leaves the inode as it is
decrease_size_never(w, fs, self, new_size) == w

\* Inode::decrease_size, inside modify_disk_inode
decrease_size(w, fs, self, new_size) ==
    IF w.panic THEN w
    ELSE IF new_size > Inode_size(disk_inode(w, self), self) THEN w
    ELSE Bind(DiskInode_decrease_size(w, self, new_size), LAMBDA r :
              dealloc_blocks(r.w, fs, r.v, 1, Len(r.v) + 1))

\* the tail of create and linkat, with the dirent written in the first
\* slot instead of the new one
append_dirent_first(w, fs, self, name, inode_id) ==
    Bind(enter_modify(w, self), LAMBDA w1 :
        IF w1.panic THEN w1
        ELSE LET file_count == Inode_size(disk_inode(w1, self), self) \div DIRENT_SZ
             IN  Bind(increase_size(w1, fs, self, (file_count + 1) * DIRENT_SZ),
                 LAMBDA w2 :
                 Bind(DiskInode_write_at(w2, self, 0, DirEntry_new(name, inode_id)),
                 LAMBDA r : drop_handle(r.w))))

\* the tail of create and linkat: inside modify_disk_inode, grow the
\* directory by one dirent and write (name, inode_id) in the new slot
append_dirent(w, fs, self, name, inode_id) ==
    Bind(enter_modify(w, self), LAMBDA w1 :
        IF w1.panic THEN w1
        ELSE LET file_count == Inode_size(disk_inode(w1, self), self) \div DIRENT_SZ
             IN  Bind(increase_size(w1, fs, self, (file_count + 1) * DIRENT_SZ),
                 LAMBDA w2 :
                 Bind(DiskInode_write_at(w2, self, file_count * DIRENT_SZ,
                                         DirEntry_new(name, inode_id)),
                 LAMBDA r : drop_handle(r.w))))

\* Inode::create without the check that the name is new
Inode_create_nocheck(w, fs, self, name) ==
    Returned(Bind(alloc_inode(fs_lock(w), fs), LAMBDA a :
    IF a.w.panic THEN [w |-> a.w, ret |-> None]
    ELSE Bind(modify_block(a.w, get_disk_inode_pos(fs, a.ret).block_id,
                  DiskInode_initialize(get_disk_inode_pos(fs, a.ret), File)),
         LAMBDA w3 :
         Bind(append_dirent(w3, fs, self, name, a.ret), LAMBDA w4 :
              [w |-> block_cache_sync_all(w4), ret |-> a.ret]))))

\* Inode::create: [w, ret], ret the new inode id or None
Inode_create(w, fs, self, name) ==
    Returned(Bind(enter_modify(fs_lock(w), self), LAMBDA w1 :
    IF w1.panic THEN [w |-> w1, ret |-> None]
    ELSE Bind(find_inode_id(w1, self, name), LAMBDA f :
    Bind(drop_handle(f.w), LAMBDA w2 :
    IF f.w.panic \/ f.ret # None THEN [w |-> w2, ret |-> None]
    ELSE Bind(alloc_inode(w2, fs), LAMBDA a :
    IF a.w.panic THEN [w |-> a.w, ret |-> None]
    ELSE Bind(modify_block(a.w, get_disk_inode_pos(fs, a.ret).block_id,
                  DiskInode_initialize(get_disk_inode_pos(fs, a.ret), File)),
         LAMBDA w3 :
         Bind(append_dirent(w3, fs, self, name, a.ret), LAMBDA w4 :
              [w |-> block_cache_sync_all(w4), ret |-> a.ret])))))))

\* Inode::linkat that refuses a newpath the directory already holds
Inode_linkat_checked(w, fs, self, oldpath, newpath) ==
    Returned(Bind(enter_read(fs_lock(w), self), LAMBDA w1 :
    Bind(find_inode_id(w1, self, oldpath), LAMBDA f :
    Bind(find_inode_id(f.w, self, newpath), LAMBDA n :
    Bind(drop_handle(n.w), LAMBDA w2 :
         IF n.w.panic \/ f.ret = None \/ n.ret # None THEN [w |-> w2, ret |-> -1]
         ELSE [w |-> append_dirent(w2, fs, self, newpath, f.ret), ret |-> 0])))))

\* Inode::linkat: [w, ret]
Inode_linkat(w, fs, self, oldpath, newpath) ==
    Returned(Bind(enter_read(fs_lock(w), self), LAMBDA w1 :
    Bind(find_inode_id(w1, self, oldpath), LAMBDA f :
    Bind(drop_handle(f.w), LAMBDA w2 :
         IF f.w.panic \/ f.ret = None THEN [w |-> w2, ret |-> -1]
         ELSE [w |-> append_dirent(w2, fs, self, newpath, f.ret), ret |-> 0]))))

\* the loop of unlinkat that drops the last dirent without copying it
\* over the matched one
RECURSIVE unlink_from_pop(_, _, _, _, _, _)
unlink_from_pop(w, fs, self, name, i, file_count) ==
    IF w.panic \/ i >= file_count THEN [w |-> w, ret |-> -1]
    ELSE Bind(DiskInode_read_at(w, self, i * DIRENT_SZ, DIRENT_SZ), LAMBDA r :
        IF r.w.panic THEN [w |-> r.w, ret |-> -1]
        ELSE IF r.n # DIRENT_SZ
        THEN [w |-> [r.w EXCEPT !.panic = TRUE], ret |-> -1]
        ELSE IF DirEntry_name(r.data) # name
        THEN unlink_from_pop(r.w, fs, self, name, i + 1, file_count)
        ELSE [w   |-> decrease_size(r.w, fs, self, (file_count - 1) * DIRENT_SZ),
              ret |-> 0])

\* the loop of unlinkat that also truncates the inode the removed dirent
\* named
RECURSIVE unlink_from_reclaim(_, _, _, _, _, _)
unlink_from_reclaim(w, fs, self, name, i, file_count) ==
    IF w.panic \/ i >= file_count THEN [w |-> w, ret |-> -1]
    ELSE Bind(DiskInode_read_at(w, self, i * DIRENT_SZ, DIRENT_SZ), LAMBDA r :
        IF r.w.panic THEN [w |-> r.w, ret |-> -1]
        ELSE IF r.n # DIRENT_SZ
        THEN [w |-> [r.w EXCEPT !.panic = TRUE], ret |-> -1]
        ELSE IF DirEntry_name(r.data) # name
        THEN unlink_from_reclaim(r.w, fs, self, name, i + 1, file_count)
        ELSE Bind(DiskInode_read_at(r.w, self, (file_count - 1) * DIRENT_SZ,
                                    DIRENT_SZ), LAMBDA l :
             Bind(DiskInode_write_at(l.w, self, i * DIRENT_SZ,
                      l.data \o SubSeq(r.data, l.n + 1, DIRENT_SZ)), LAMBDA wr :
             Bind(decrease_size(wr.w, fs, self, (file_count - 1) * DIRENT_SZ),
                  LAMBDA w1 :
             Bind(enter_modify(w1, get_disk_inode_pos(fs, DirEntry_inode_number(r.data))),
                  LAMBDA w2 :
             Bind(decrease_size(w2, fs,
                      get_disk_inode_pos(fs, DirEntry_inode_number(r.data)), 0),
                  LAMBDA w3 : [w |-> drop_handle(w3), ret |-> 0]))))))

\* the loop of unlinkat from dirent i on, inside modify_disk_inode: [w, ret]
RECURSIVE unlink_from(_, _, _, _, _, _)
unlink_from(w, fs, self, name, i, file_count) ==
    IF w.panic \/ i >= file_count THEN [w |-> w, ret |-> -1]
    ELSE Bind(DiskInode_read_at(w, self, i * DIRENT_SZ, DIRENT_SZ), LAMBDA r :
        IF r.w.panic THEN [w |-> r.w, ret |-> -1]
        ELSE IF r.n # DIRENT_SZ
        THEN [w |-> [r.w EXCEPT !.panic = TRUE], ret |-> -1]
        ELSE IF DirEntry_name(r.data) # name
        THEN unlink_from(r.w, fs, self, name, i + 1, file_count)
        ELSE Bind(DiskInode_read_at(r.w, self, (file_count - 1) * DIRENT_SZ,
                                    DIRENT_SZ), LAMBDA l :
             \* bytes the second read_at did not reach stay as they were
             Bind(DiskInode_write_at(l.w, self, i * DIRENT_SZ,
                      l.data \o SubSeq(r.data, l.n + 1, DIRENT_SZ)), LAMBDA wr :
                  [w   |-> decrease_size(wr.w, fs, self,
                                         (file_count - 1) * DIRENT_SZ),
                   ret |-> 0])))

\* Inode::unlinkat: [w, ret]
Inode_unlinkat(w, fs, self, name) ==
    Returned(Bind(enter_modify(fs_lock(w), self), LAMBDA w1 :
        IF w1.panic THEN [w |-> w1, ret |-> -1]
        ELSE IF ~is_dir(disk_inode(w1, self), self)
        THEN [w |-> [w1 EXCEPT !.panic = TRUE], ret |-> -1]
        ELSE Bind(unlink_from(w1, fs, self, name, 0,
                      Inode_size(disk_inode(w1, self), self) \div DIRENT_SZ),
                  LAMBDA r : [w |-> drop_handle(r.w), ret |-> r.ret])))

\* the loop of get_nlink that stops at the first dirent of inode_num
RECURSIVE nlink_from_first(_, _, _, _, _, _)
nlink_from_first(w, self, inode_num, i, file_count, nlink) ==
    IF w.panic \/ i >= file_count THEN [w |-> w, n |-> nlink]
    ELSE Bind(DiskInode_read_at(w, self, i * DIRENT_SZ, DIRENT_SZ), LAMBDA r :
            IF r.w.panic THEN [w |-> r.w, n |-> nlink]
            ELSE IF r.n # DIRENT_SZ
            THEN [w |-> [r.w EXCEPT !.panic = TRUE], n |-> nlink]
            ELSE IF inode_num = DirEntry_inode_number(r.data)
            THEN [w |-> r.w, n |-> nlink + 1]
            ELSE nlink_from_first(r.w, self, inode_num, i + 1, file_count, nlink))

\* the loop of get_nlink from dirent i on: [w, n]
RECURSIVE nlink_from(_, _, _, _, _, _)
nlink_from(w, self, inode_num, i, file_count, nlink) ==
    IF w.panic \/ i >= file_count THEN [w |-> w, n |-> nlink]
    ELSE Bind(DiskInode_read_at(w, self, i * DIRENT_SZ, DIRENT_SZ), LAMBDA r :
            IF r.w.panic THEN [w |-> r.w, n |-> nlink]
            ELSE IF r.n # DIRENT_SZ
            THEN [w |-> [r.w EXCEPT !.panic = TRUE], n |-> nlink]
            ELSE nlink_from(r.w, self, inode_num, i + 1, file_count,
                            IF inode_num = DirEntry_inode_number(r.data)
                            THEN nlink + 1 ELSE nlink))

\* Inode::get_nlink: [w, n]
Inode_get_nlink(w, self, inode_num) ==
    Returned(Bind(enter_read(fs_lock(w), self), LAMBDA w1 :
        IF w1.panic THEN [w |-> w1, n |-> 0]
        ELSE IF ~is_dir(disk_inode(w1, self), self)
        THEN [w |-> [w1 EXCEPT !.panic = TRUE], n |-> 0]
        ELSE Bind(nlink_from(w1, self, inode_num, 0,
                      Inode_size(disk_inode(w1, self), self) \div DIRENT_SZ, 0),
                  LAMBDA r : [w |-> drop_handle(r.w), n |-> r.n])))

\* Inode::get_diskinodetype: [w, ino, mode], the inode number of self and
\* whether it is a directory
Inode_get_diskinodetype(w, fs, self) ==
    LET inodes_per_block == BLOCK_SZ \div DISK_INODE_SZ
        ino == (self.block_id - fs.inode_area_start_block) * inodes_per_block
                   + self.block_offset \div DISK_INODE_SZ
    IN  Returned(Bind(enter_read(fs_lock(w), self), LAMBDA w1 :
            IF w1.panic THEN [w |-> w1, ino |-> ino, mode |-> FALSE]
            ELSE [w    |-> drop_handle(w1),
                  ino  |-> ino,
                  mode |-> is_dir(disk_inode(w1, self), self)]))

\* the loop of ls from dirent i on: [w, v]
RECURSIVE ls_from(_, _, _, _, _)
ls_from(w, self, i, file_count, v) ==
    IF w.panic \/ i >= file_count THEN [w |-> w, v |-> v]
    ELSE Bind(DiskInode_read_at(w, self, i * DIRENT_SZ, DIRENT_SZ), LAMBDA r :
            IF r.w.panic THEN [w |-> r.w, v |-> v]
            ELSE IF r.n # DIRENT_SZ
            THEN [w |-> [r.w EXCEPT !.panic = TRUE], v |-> v]
            ELSE ls_from(r.w, self, i + 1, file_count,
                         Append(v, DirEntry_name(r.data))))

\* Inode::ls: [w, v]
Inode_ls(w, self) ==
    Returned(Bind(enter_read(fs_lock(w), self), LAMBDA w1 :
        IF w1.panic THEN [w |-> w1, v |-> <<>>]
        ELSE Bind(ls_from(w1, self, 0,
                      Inode_size(disk_inode(w1, self), self) \div DIRENT_SZ,
                      <<>>),
                  LAMBDA r : [w |-> drop_handle(r.w), v |-> r.v])))

\* Inode::read_at: [w, n, data]
Inode_read_at(w, self, offset, len) ==
    Returned(Bind(enter_read(fs_lock(w), self), LAMBDA w1 :
        IF w1.panic THEN [w |-> w1, n |-> 0, data |-> <<>>]
        ELSE Bind(DiskInode_read_at(w1, self, offset, len), LAMBDA r :
                  [w |-> drop_handle(r.w), n |-> r.n, data |-> r.data])))

\* Inode::write_at: [w, n]
Inode_write_at(w, fs, self, offset, buf) ==
    Returned(Bind(enter_modify(fs_lock(w), self), LAMBDA w1 :
        IF w1.panic THEN [w |-> w1, n |-> 0]
        ELSE Bind(increase_size(w1, fs, self, offset + Len(buf)), LAMBDA w2 :
             Bind(DiskInode_write_at(w2, self, offset, buf), LAMBDA r :
             Bind(drop_handle(r.w), LAMBDA w3 :
                  [w |-> block_cache_sync_all(w3), n |-> r.n])))))

\* Inode::clear
Inode_clear(w, fs, self) ==
    fs_unlock(Bind(enter_modify(fs_lock(w), self), LAMBDA w1 :
        IF w1.panic THEN w1
        ELSE LET size == Inode_size(disk_inode(w1, self), self)
             IN  Bind(DiskInode_clear_size(w1, self), LAMBDA r :
                 Bind(IF Len(r.v) # total_blocks(size)
                      THEN [r.w EXCEPT !.panic = TRUE]
                      ELSE dealloc_blocks(r.w, fs, r.v, 1, Len(r.v) + 1), LAMBDA w2 :
                 Bind(drop_handle(w2), LAMBDA w3 : block_cache_sync_all(w3))))))

(***************************************************************************)
(* SpecCache: callers of the block cache.  A caller requests blocks, keeps *)
(* or drops the clones it got, modifies through the clone it got last, and *)
(* syncs.  Blocks never requested before are requested in id order, and    *)
(* their clones are kept only as long as every earlier one is still held.  *)
(* Requests of blocks requested before, modifications and releases are     *)
(* counted in budget.                                                      *)
(***************************************************************************)
Here == World(queue, dev, handles, panicked)

Become(w) ==
    /\ queue' = w.queue
    /\ dev' = w.dev
    /\ handles' = w.handles
    /\ panicked' = w.panic

Top(h) == h[Len(h)]

\* a device that was written before: some blocks hold old bytes
OldBytes(v) == [o \in {0} |-> v]

CacheInit ==
    /\ dev = [b \in {1, 17} |-> OldBytes(7)]
    /\ queue = <<>>
    /\ handles = <<>>
    /\ panicked = FALSE
    /\ last = [op |-> "init", bid |-> 0, n |-> 0]
    /\ fresh = 0
    /\ budget = 0
    /\ bitmap = NoBitmap
    /\ efs = NoEfs /\ vnodes = {} /\ gdir = <<>>
    /\ NoThreads
    /\ overflow_checks = TRUE   \* block_cache.rs computes nothing in u32

\* get_block_cache(fresh block); the clone is dropped at once
CTouchFresh ==
    /\ ~panicked
    /\ UNCHANGED <<fixed, fsvars, threadvars>>
    /\ fresh < NBlocks
    /\ LET w == drop_handle(get_block_cache(Here, fresh))
       IN  /\ Become(w)
           /\ last' = [op |-> "get", bid |-> fresh, n |-> w.writes]
    /\ fresh' = fresh + 1
    /\ UNCHANGED budget

\* get_block_cache(fresh block); the clone is kept
CKeepFresh ==
    /\ ~panicked
    /\ UNCHANGED <<fixed, fsvars, threadvars>>
    /\ fresh < NBlocks
    /\ handles = [i \in 1..fresh |-> i - 1]
    /\ LET w == get_block_cache(Here, fresh)
       IN  /\ Become(w)
           /\ last' = [op |-> "get", bid |-> fresh, n |-> w.writes]
    /\ fresh' = fresh + 1
    /\ UNCHANGED budget

\* get_block_cache(b).lock().modify(0, f) as one statement, on a block
\* requested before (hit, or miss and reload); v = 0: f stores nothing,
\* v = -1: the clone is dropped unused
CAgain(b, v) ==
    /\ ~panicked
    /\ UNCHANGED <<fixed, fsvars, threadvars>>
    /\ b < fresh
    /\ budget < MaxOps
    /\ LET w1 == get_block_cache(Here, b)
           w2 == IF v = -1 THEN w1 ELSE modify(w1, b, v # 0, [o \in {0} |-> v])
           w  == drop_handle(w2)
       IN  /\ Become(w)
           /\ last' = [op |-> IF v = -1 THEN "get"
                               ELSE IF v = 0 THEN "get_modify" ELSE "get_store",
                       bid |-> b, n |-> w.writes]
    /\ budget' = budget + 1
    /\ UNCHANGED fresh

\* the most recent clone is dropped
CRelease ==
    /\ ~panicked
    /\ UNCHANGED <<fixed, fsvars, threadvars>>
    /\ handles # <<>>
    /\ Become(drop_handle(Here))
    /\ budget < MaxOps
    /\ budget' = budget + 1
    /\ last' = [op |-> "release", bid |-> Top(handles), n |-> 0]
    /\ UNCHANGED fresh

\* lock().modify(0, f) through the most recent clone; f stores byte v at
\* offset 0, or nothing
CModify(stores, v) ==
    /\ ~panicked
    /\ UNCHANGED <<fixed, fsvars, threadvars>>
    /\ budget < MaxOps
    /\ handles # <<>>
    /\ Become(modify(Here, Top(handles), stores, [o \in {0} |-> v]))
    /\ budget' = budget + 1
    /\ last' = [op |-> IF stores THEN "store" ELSE "modify",
                bid |-> Top(handles), n |-> 0]
    /\ UNCHANGED fresh

\* block_cache_sync_all(), not twice in a row
CSyncAll ==
    /\ ~panicked
    /\ UNCHANGED <<fixed, fsvars, threadvars>>
    /\ last.op # "sync_all"
    /\ LET w == block_cache_sync_all(Here)
       IN  /\ Become(w)
           /\ last' = [op |-> "sync_all", bid |-> 0, n |-> w.writes]
    /\ UNCHANGED <<fresh, budget>>

CacheNext ==
    \/ CTouchFresh
    \/ CKeepFresh
    \/ \E b \in 0..(MaxAgain - 1), v \in (-1)..MaxByte : CAgain(b, v)
    \/ CRelease
    \/ \E v \in 0..MaxByte : CModify(v # 0, v)
    \/ CSyncAll

SpecCache == CacheInit /\ [][CacheNext]_vars

(***************************************************************************)
(* SpecBitmap: callers of one Bitmap.  The bitmap blocks start in any of   *)
(* a few fill states (every fill state can be reached by alloc and         *)
(* dealloc calls from the empty bitmap); the block behind the bitmap holds *)
(* other data.                                                             *)
(***************************************************************************)
\* the block whose set bits are S
BitsToBlock(S) ==
    LET byte(o) == IF S = {} THEN 0
                   ELSE (IF 8 * o     \in S THEN 1   ELSE 0)
                      + (IF 8 * o + 1 \in S THEN 2   ELSE 0)
                      + (IF 8 * o + 2 \in S THEN 4   ELSE 0)
                      + (IF 8 * o + 3 \in S THEN 8   ELSE 0)
                      + (IF 8 * o + 4 \in S THEN 16  ELSE 0)
                      + (IF 8 * o + 5 \in S THEN 32  ELSE 0)
                      + (IF 8 * o + 6 \in S THEN 64  ELSE 0)
                      + (IF 8 * o + 7 \in S THEN 128 ELSE 0)
    IN  [o \in {x \in 0..(BLOCK_SZ - 1) : byte(x) # 0} |-> byte(o)]

FillStates ==
    << {},
       0..(BLOCK_BITS - 1),
       (0..69) \ {3} >>

FillBlocks == [k \in 1..Len(FillStates) |-> BitsToBlock(FillStates[k])]

\* bits a bitmap workload frees
DeallocBits == {0, 3, 64, 69, BLOCK_BITS - 1, BLOCK_BITS, 2 * BLOCK_BITS - 1}

\* the device with bitmap block b in fill state f[b] and data behind them
BitmapDev(start, n, f) ==
    LET blk(id) == IF id = start + n THEN OldBytes(7)
                   ELSE FillBlocks[f[id - start]]
    IN  [id \in {x \in start..(start + n) : blk(x) # ZeroBlock} |-> blk(id)]

BitmapInit ==
    /\ \E start \in {1}, n \in 0..MaxBitmapBlocks :
        /\ bitmap = Bitmap_new(start, n)
        /\ \E f \in [0..(n - 1) -> 1..Len(FillStates)] :
              dev = BitmapDev(start, n, f)
    /\ queue = <<>>
    /\ handles = <<>>
    /\ panicked = FALSE
    /\ last = [op |-> "init", bid |-> 0, ret |-> None, n |-> 0,
               mods |-> <<>>, peak |-> 0]
    /\ efs = NoEfs /\ vnodes = {} /\ gdir = <<>>
    /\ fresh = 0
    /\ budget = 0
    /\ NoThreads
    /\ overflow_checks \in BOOLEAN

BAlloc ==
    /\ ~panicked
    /\ budget < MaxBitmapOps
    /\ LET r == Bitmap_alloc(Here, bitmap)
       IN  /\ Become(r.w)
           /\ last' = [op |-> "alloc", bid |-> 0, ret |-> r.ret, n |-> r.w.writes,
                        mods |-> r.w.mods, peak |-> r.w.peak]
    /\ budget' = budget + 1
    /\ UNCHANGED <<fresh, fixed, fsvars, threadvars>>

BDealloc(bit) ==
    /\ ~panicked
    /\ budget < MaxBitmapOps
    /\ LET w == Bitmap_dealloc(Here, bitmap, bit)
       IN  /\ Become(w)
           /\ last' = [op |-> "dealloc", bid |-> bit, ret |-> None, n |-> w.writes,
                        mods |-> w.mods, peak |-> w.peak]
    /\ budget' = budget + 1
    /\ UNCHANGED <<fresh, fixed, fsvars, threadvars>>

BitmapNext ==
    \/ BAlloc
    \/ \E bit \in DeallocBits : BDealloc(bit)

SpecBitmap == BitmapInit /\ [][BitmapNext]_vars

(***************************************************************************)
(* Spec and SpecFile: callers of the filesystem.  The device holds an old  *)
(* image; it is formatted, then the root directory and the files in it     *)
(* are worked on through the vnode API.  A name is the sequence of its     *)
(* bytes.  Calls other than the format are counted in budget.              *)
(***************************************************************************)
NameA == <<97>>

NameB == <<98>>

\* a buffer of len bytes: v + 1, v + 2, ... as u8
Pattern(len, v) == [i \in 1..len |-> (v + i) % 256]

\* a caller's buffer before a read
Blank(len) == [i \in 1..len |-> 0]

\* a write of 17 blocks: more blocks than the cache holds
LongLen == 17 * BLOCK_SZ

\* the device before the format: an old image with another layout, set
\* bits in what become the bitmaps, old inodes and old data
RawDevice ==
    LET at == 1 + 1 + (BLOCK_BITS * DISK_INODE_SZ) \div BLOCK_SZ
    IN  (0 :> SuperBlock_initialize(64, 1, 8, 1, 53))
        @@ (1 :> [o \in {0} |-> 6])
        @@ (2 :> [o \in {124, 128, 132, 252} |-> 9])
        @@ (at :> [o \in {0, 1} |-> 255])
        @@ (at + 1 :> [o \in {0, 28, 32, 511} |-> 5])
        @@ (at + 2 :> [o \in {0, 511} |-> 5])

\* the record kept in last
FsLast(op, name, ino, off, buf, ret, data, synced, w) ==
    [op |-> op, name |-> name, ino |-> ino, off |-> off, buf |-> buf,
     ret |-> ret, data |-> data, synced |-> synced /\ ~w.panic,
     writes |-> w.writes, evicted |-> w.evicted, peak |-> w.peak,
     nested |-> w.nested, under |-> w.under, fs |-> w.fs, bare |-> w.bare]

FsInit ==
    /\ dev = RawDevice
    /\ queue = <<>>
    /\ handles = <<>>
    /\ panicked = FALSE
    /\ last = FsLast("init", <<>>, 0, 0, <<>>, 0, <<>>, FALSE, World(<<>>, dev, <<>>, FALSE))
    /\ fresh = 0
    /\ budget = 0
    /\ bitmap = NoBitmap
    /\ efs = NoEfs /\ vnodes = {} /\ gdir = <<>>
    /\ NoThreads
    /\ overflow_checks \in BOOLEAN

\* names of the dirents the calls made so far imply
GNames(g) == [i \in 1..Len(g) |-> g[i].name]

\* index of the first dirent of that name (0: none)
GIndex(g, name) ==
    IF \E i \in 1..Len(g) : g[i].name = name
    THEN CHOOSE i \in 1..Len(g) :
            g[i].name = name /\ \A j \in 1..(i - 1) : g[j].name # name
    ELSE 0

\* the block as the program sees it: the cached buffer, else the device's
ViewBlock(q, d, id) ==
    IF Cached(q, id) THEN q[IndexOf(q, id)].cache ELSE read_block(d, id)

\* find(name) on the root directory: the inode number or None
Find(name) == Inode_find(Here, efs, root_inode(efs), name).ret

\* size of the root directory as the program sees it in w
DirSize(w, fs) ==
    Inode_size(ViewBlock(w.queue, w.dev, root_inode(fs).block_id), root_inode(fs))

\* the size of inode ino in w
FileSize(w, fs, ino) ==
    Inode_size(ViewBlock(w.queue, w.dev, get_disk_inode_pos(fs, ino).block_id),
               get_disk_inode_pos(fs, ino))

\* EasyFileSystem::create(block_device, total_blocks, inode_bitmap_blocks)
FsFormat(device_blocks, inode_bitmap_blocks) ==
    /\ ~panicked
    /\ efs = NoEfs
    /\ \E r \in {EasyFileSystem_create(Here, device_blocks, inode_bitmap_blocks)} :
           /\ Become(r.w)
           /\ efs' = IF r.w.panic THEN NoEfs ELSE r.fs
           /\ last' = FsLast("format", <<>>, 0, 0,
                             <<device_blocks, inode_bitmap_blocks>>, 0, <<>>,
                             TRUE, r.w)
    /\ UNCHANGED <<fresh, budget, fixed, vnodes, gdir, threadvars>>

\* EasyFileSystem::open(block_device), on the device formatted before
FsOpen ==
    /\ ~panicked
    /\ efs # NoEfs
    /\ budget < MaxFsOps
    /\ \E r \in {EasyFileSystem_open(Here)} :
           /\ Become(r.w)
           /\ efs' = r.fs
           /\ last' = FsLast("open", <<>>, 0, 0, <<>>, 0, <<>>, last.synced, r.w)
    /\ budget' = budget + 1
    /\ UNCHANGED <<fresh, fixed, vnodes, gdir, threadvars>>

\* block_cache_sync_all()
\* A call made now, from the state as it is: [w, last, vnodes, gdir], the
\* world after it, the record of it, the handles the caller then has and the
\* dirents the calls then imply.
SyncAllOutcome ==
    Bind(block_cache_sync_all(Here), LAMBDA w :
        [w |-> w, last |-> FsLast("sync_all", <<>>, 0, 0, <<>>, 0, <<>>, TRUE, w),
         vnodes |-> vnodes, gdir |-> gdir])

\* the call ends as the outcome o says
Ends(o) ==
    /\ Become(o.w)
    /\ last' = o.last
    /\ vnodes' = o.vnodes
    /\ gdir' = o.gdir

CallSyncAll ==
    /\ ~panicked
    /\ efs # NoEfs
    /\ budget < MaxFsOps
    /\ Ends(SyncAllOutcome)
    /\ budget' = budget + 1
    /\ UNCHANGED <<fresh, fixed, efs>>

\* the call made by the one caller of a workload without threads
FsSyncAll == CallSyncAll /\ UNCHANGED threadvars

\* root_inode.create(name)
CreateOutcome(name) ==
    Bind(Inode_create(Here, efs, root_inode(efs), name), LAMBDA r :
        [w |-> r.w,
         last |-> FsLast("create", name, 0, 0, <<>>, r.ret, <<>>,
                         r.ret # None, r.w),
         vnodes |-> IF r.ret # None /\ ~r.w.panic THEN vnodes \cup {r.ret}
                    ELSE vnodes,
         gdir |-> IF GIndex(gdir, name) = 0
                  THEN Append(gdir, [name |-> name, ino |-> r.ret])
                  ELSE gdir])

CallCreate(name) ==
    /\ ~panicked
    /\ efs # NoEfs
    /\ budget < MaxFsOps
    /\ Ends(CreateOutcome(name))
    /\ budget' = budget + 1
    /\ UNCHANGED <<fresh, fixed, efs>>

\* the call made by the one caller of a workload without threads
FsCreate(name) == CallCreate(name) /\ UNCHANGED threadvars

\* root_inode.linkat(oldpath, newpath)
\* ino, off of the record: what oldpath resolved to and the size of the
\* directory, both before the call
LinkatOutcome(oldpath, newpath) ==
    Bind(Inode_linkat(Here, efs, root_inode(efs), oldpath, newpath), LAMBDA r :
        [w |-> r.w,
         last |-> FsLast("linkat", newpath, Find(oldpath), DirSize(Here, efs),
                         oldpath, r.ret, <<>>, FALSE, r.w),
         vnodes |-> vnodes,
         gdir |-> IF GIndex(gdir, oldpath) # 0
                  THEN Append(gdir, [name |-> newpath,
                                     ino |-> gdir[GIndex(gdir, oldpath)].ino])
                  ELSE gdir])

CallLinkat(oldpath, newpath) ==
    /\ ~panicked
    /\ efs # NoEfs
    /\ budget < MaxFsOps
    /\ Ends(LinkatOutcome(oldpath, newpath))
    /\ budget' = budget + 1
    /\ UNCHANGED <<fresh, fixed, efs>>

\* the call made by the one caller of a workload without threads
FsLinkat(oldpath, newpath) == CallLinkat(oldpath, newpath) /\ UNCHANGED threadvars

\* root_inode.unlinkat(name)
UnlinkatOutcome(name) ==
    Bind(Inode_unlinkat(Here, efs, root_inode(efs), name), LAMBDA r :
        [w |-> r.w,
         last |-> FsLast("unlinkat", name, 0, 0, <<>>, r.ret, <<>>, FALSE, r.w),
         vnodes |-> vnodes,
         gdir |-> IF GIndex(gdir, name) # 0
                  THEN SubSeq([gdir EXCEPT ![GIndex(gdir, name)] = gdir[Len(gdir)]],
                              1, Len(gdir) - 1)
                  ELSE gdir])

CallUnlinkat(name) ==
    /\ ~panicked
    /\ efs # NoEfs
    /\ budget < MaxFsOps
    /\ Ends(UnlinkatOutcome(name))
    /\ budget' = budget + 1
    /\ UNCHANGED <<fresh, fixed, efs>>

\* the call made by the one caller of a workload without threads
FsUnlinkat(name) == CallUnlinkat(name) /\ UNCHANGED threadvars

\* inode.write_at(offset, buf), inode a file the caller holds
WriteAtOutcome(ino, offset, buf) ==
    Bind(Inode_write_at(Here, efs, get_disk_inode_pos(efs, ino), offset, buf),
         LAMBDA r :
        [w |-> r.w,
         last |-> FsLast("write_at", <<>>, ino, offset, buf, r.n, <<>>, TRUE, r.w),
         vnodes |-> vnodes, gdir |-> gdir])

CallWriteAt(ino, offset, buf) ==
    /\ ~panicked
    /\ ino \in vnodes
    /\ budget < MaxFsOps
    /\ Ends(WriteAtOutcome(ino, offset, buf))
    /\ budget' = budget + 1
    /\ UNCHANGED <<fresh, fixed, efs>>

\* the call made by the one caller of a workload without threads
FsWriteAt(ino, offset, buf) == CallWriteAt(ino, offset, buf) /\ UNCHANGED threadvars

\* root_inode.write_at(offset, buf): the vnode efs.root_inode() hands out
\* is an Inode like any other
FsWriteAtRoot(offset, buf) ==
    /\ ~panicked
    /\ efs # NoEfs
    /\ budget < MaxFsOps
    /\ \E r \in {Inode_write_at(Here, efs, root_inode(efs), offset, buf)} :
           /\ Become(r.w)
           /\ last' = FsLast("write_at", <<>>, 0, offset, buf, r.n, <<>>,
                             TRUE, r.w)
    /\ budget' = budget + 1
    /\ UNCHANGED <<fresh, fixed, fsvars, threadvars>>

\* inode.read_at(offset, buf) with |buf| = len, after a write
FsReadAt(ino, offset, len) ==
    /\ ~panicked
    /\ ino \in vnodes
    /\ last.op = "write_at"
    /\ \E r \in {Inode_read_at(Here, get_disk_inode_pos(efs, ino), offset, len)} :
           /\ Become(r.w)
           /\ last' = FsLast("read_at", <<>>, ino, offset, Blank(len), r.n,
                             r.data, last.synced, r.w)
    /\ UNCHANGED <<fresh, budget, fixed, fsvars, threadvars>>

\* inode.clear(), inode a file the caller holds
\* off of the record: the size before the call; data: for a clear that
\* follows a clear of the same inode, the size that one found
ClearOutcome(ino) ==
    Bind(Inode_clear(Here, efs, get_disk_inode_pos(efs, ino)), LAMBDA w :
        [w |-> w,
         last |-> FsLast("clear", <<>>, ino, FileSize(Here, efs, ino), <<>>, 0,
                         IF last.op = "clear" /\ last.ino = ino
                         THEN <<last.off>> ELSE <<>>,
                         TRUE, w),
         vnodes |-> vnodes, gdir |-> gdir])

CallClear(ino) ==
    /\ ~panicked
    /\ ino \in vnodes
    /\ budget < MaxFsOps
    /\ Ends(ClearOutcome(ino))
    /\ budget' = budget + 1
    /\ UNCHANGED <<fresh, fixed, efs>>

\* the call made by the one caller of a workload without threads
FsClear(ino) == CallClear(ino) /\ UNCHANGED threadvars

\* inode ids a workload may hold
Inos == 1..3

\* the (total_blocks, inode_bitmap_blocks) a device is formatted with
Formats == {<<TotalBlocks, 1>>, <<2 * TotalBlocks, 2>>}

FsNext ==
    \/ \E f \in Formats : FsFormat(f[1], f[2])
    \/ FsOpen
    \/ FsSyncAll
    \/ \E name \in {NameA, NameB} : FsCreate(name)
    \/ FsLinkat(NameA, NameB)
    \/ \E name \in {NameA, NameB} : FsUnlinkat(name)
    \/ \E ino \in Inos, buf \in {Pattern(LongLen, 1)} : FsWriteAt(ino, 0, buf)
    \/ \E ino \in Inos : FsClear(ino)

Spec == FsInit /\ [][FsNext]_vars

\* offsets and lengths of the writes and reads of a file workload: in one
\* block, empty, across two direct blocks, across the last direct and the
\* first single-indirect block, across 17 blocks
FileArgs ==
    { <<0, 2, 0>>, <<3, 0, 0>>, <<BLOCK_SZ - 1, 2, 255>>,
      <<DIRECT_BOUND * BLOCK_SZ - 1, 2, 7>>, <<1, LongLen, 100>> }

FileNext ==
    \/ FsFormat(TotalBlocks, 1)
    \/ FsCreate(NameA)
    \/ \E ino \in Inos, a \in FileArgs :
           \E buf \in {Pattern(a[2], a[3])} : FsWriteAt(ino, a[1], buf)
    \/ \E ino \in Inos, a \in FileArgs : FsReadAt(ino, a[1], a[2])
    \/ \E ino \in Inos : FsClear(ino)

SpecFile == FsInit /\ [][FileNext]_vars

\* the smallest total_blocks whose data_total_blocks does not underflow
MinTotal(inode_bitmap_blocks) ==
    1 + Layout(0, inode_bitmap_blocks).inode_total_blocks

\* formats of SpecLayout: from no data block at all upwards, and around the
\* size at which a second data bitmap block is needed
LayoutFormats ==
    {<<MinTotal(ib) + k, ib>> : ib \in 1..2, k \in 0..MaxSpare}
        \cup {<<MinTotal(1) + 4096 + k, 1>> : k \in 0..2}

\* formats whose total_blocks is below the superblock and the inode region:
\* data_total_blocks underflows, and for the second data_total_blocks + 4096
\* does not wrap back
UnderflowFormats == {<<MinTotal(2) - 1, 2>>, <<100, 1>>, <<100, 5>>}

LayoutNext ==
    \/ \E f \in LayoutFormats \cup UnderflowFormats : FsFormat(f[1], f[2])
    \/ FsOpen
    \/ FsSyncAll

SpecLayout == FsInit /\ [][LayoutNext]_vars

\* formats of SpecSmall: a data area of 2 and of 3 blocks
SmallFormats == {<<MinTotal(1) + 3, 1>>, <<MinTotal(1) + 4, 1>>}

\* offsets and lengths of the writes of SpecSmall: in the first block,
\* across the first two blocks, in the third block
SmallArgs == { <<0, 2, 0>>, <<BLOCK_SZ - 1, 2, 255>>, <<2 * BLOCK_SZ, 1, 9>> }

SmallNext ==
    \/ \E f \in SmallFormats : FsFormat(f[1], f[2])
    \/ \E name \in {NameA, NameB} : FsCreate(name)
    \/ FsLinkat(NameA, NameB)
    \/ \E name \in {NameA, NameB} : FsUnlinkat(name)
    \/ \E ino \in Inos, a \in SmallArgs :
           \E buf \in {Pattern(a[2], a[3])} : FsWriteAt(ino, a[1], buf)
    \/ \E ino \in Inos : FsClear(ino)

SpecSmall == FsInit /\ [][SmallNext]_vars

\* SpecDir: create, linkat and unlinkat on the root directory of a fresh
\* filesystem and writes of two bytes across the first two blocks of the
\* files, MaxDirOps calls
DirInit ==
    /\ dev = RawDevice
    /\ queue = <<>>
    /\ handles = <<>>
    /\ panicked = FALSE
    /\ last = FsLast("init", <<>>, 0, 0, <<>>, 0, <<>>, FALSE, World(<<>>, dev, <<>>, FALSE))
    /\ fresh = 0
    /\ budget = MaxFsOps - MaxDirOps
    /\ bitmap = NoBitmap
    /\ efs = NoEfs /\ vnodes = {} /\ gdir = <<>>
    /\ NoThreads
    /\ overflow_checks \in BOOLEAN

DirNext ==
    \/ FsFormat(TotalBlocks, 1)
    \/ \E name \in {NameA, NameB} : FsCreate(name)
    \/ FsLinkat(NameA, NameB)
    \/ \E name \in {NameA, NameB} : FsUnlinkat(name)
    \/ \E ino \in Inos, buf \in {Pattern(2, 255)} :
           FsWriteAt(ino, BLOCK_SZ - 1, buf)

SpecDir == DirInit /\ [][DirNext]_vars

\* offsets and lengths of the writes before a clear: across the first two
\* blocks, across the last direct and the first single-indirect block
ClearArgs ==
    { <<BLOCK_SZ - 1, 2, 255>>, <<DIRECT_BOUND * BLOCK_SZ - 1, 2, 7>> }

\* SpecClear: files are created, linked, unlinked, written and cleared,
\* MaxDirOps calls
ClearNext ==
    \/ FsFormat(TotalBlocks, 1)
    \/ \E name \in {NameA, NameB} : FsCreate(name)
    \/ FsLinkat(NameA, NameB)
    \/ \E name \in {NameA, NameB} : FsUnlinkat(name)
    \/ \E ino \in Inos, a \in ClearArgs :
           \E buf \in {Pattern(a[2], a[3])} : FsWriteAt(ino, a[1], buf)
    \/ \E ino \in Inos : FsClear(ino)

SpecClear == DirInit /\ [][ClearNext]_vars

\* offsets and lengths of the writes through the vnode of the root
\* directory: in the first dirent, across the first two, in the third
RootArgs == { <<0, 2, 0>>, <<DIRENT_SZ - 1, 2, 255>>, <<2 * DIRENT_SZ, 1, 9>> }

\* SpecVnode: the calls of SpecDir and write_at through the vnode of the
\* root directory
VnodeNext ==
    \/ FsFormat(TotalBlocks, 1)
    \/ \E name \in {NameA, NameB} : FsCreate(name)
    \/ FsLinkat(NameA, NameB)
    \/ \E name \in {NameA, NameB} : FsUnlinkat(name)
    \/ \E ino \in Inos, buf \in {Pattern(2, 255)} :
           FsWriteAt(ino, BLOCK_SZ - 1, buf)
    \/ \E a \in RootArgs :
           \E buf \in {Pattern(a[2], a[3])} : FsWriteAtRoot(a[1], buf)

SpecVnode == FsInit /\ [][VnodeNext]_vars

(***************************************************************************)
(* SpecThreads: two threads call the operations of Inode on one            *)
(* filesystem.  A call is [op, name, ino].  Every operation begins with    *)
(* self.fs.lock() and its guard lives until the operation returns, so a    *)
(* thread goes: called (spinning on the mutex), locked, in (its first      *)
(* access to the filesystem made), done (its last access made, with the    *)
(* effect of the whole call), returned.  MaxFsOps calls.                   *)
(***************************************************************************)
\* the operations that change the filesystem, and those that only read it
Mutating == {"create", "linkat", "unlinkat", "write_at", "clear"}

Reading == {"find", "ls", "read_at", "get_nlink", "get_diskinodetype"}

\* the calls the threads make
Calls ==
    {[op |-> "create", name |-> NameA, ino |-> 0],
     [op |-> "linkat", name |-> NameA, ino |-> 0],
     [op |-> "unlinkat", name |-> NameA, ino |-> 0],
     [op |-> "write_at", name |-> <<>>, ino |-> 1],
     [op |-> "clear", name |-> <<>>, ino |-> 1],
     [op |-> "find", name |-> NameA, ino |-> 0],
     [op |-> "ls", name |-> <<>>, ino |-> 0],
     [op |-> "read_at", name |-> <<>>, ino |-> 1],
     [op |-> "get_nlink", name |-> <<>>, ino |-> 1],
     [op |-> "get_diskinodetype", name |-> <<>>, ino |-> 1]}

\* the reading call c, made now: [w, ret, data], the world after it and
\* what it returns
ReadResult(c) ==
    CASE c.op = "find" ->
            Bind(Inode_find(Here, efs, root_inode(efs), c.name), LAMBDA r :
                 [w |-> r.w, ret |-> r.ret, data |-> <<>>])
      [] c.op = "ls" ->
            Bind(Inode_ls(Here, root_inode(efs)), LAMBDA r :
                 [w |-> r.w, ret |-> Len(r.v), data |-> r.v])
      [] c.op = "get_nlink" ->
            Bind(Inode_get_nlink(Here, root_inode(efs), c.ino), LAMBDA r :
                 [w |-> r.w, ret |-> r.n, data |-> <<>>])
      [] c.op = "get_diskinodetype" ->
            Bind(Inode_get_diskinodetype(Here, efs, get_disk_inode_pos(efs, c.ino)),
                 LAMBDA r : [w |-> r.w, ret |-> r.ino, data |-> <<r.mode>>])
      [] c.op = "read_at" ->
            Bind(Inode_read_at(Here, get_disk_inode_pos(efs, c.ino), BLOCK_SZ - 1, 2),
                 LAMBDA r : [w |-> r.w, ret |-> r.n, data |-> r.data])

ReadOutcome(c) ==
    Bind(ReadResult(c), LAMBDA r :
        [w |-> r.w,
         last |-> FsLast(c.op, c.name, c.ino, 0, <<>>, r.ret, r.data,
                         last.synced, r.w),
         vnodes |-> vnodes, gdir |-> gdir])

\* find(name), ls(), get_nlink(ino) on the root; read_at and
\* get_diskinodetype on a file
CallRead(c) ==
    /\ ~panicked
    /\ efs # NoEfs
    /\ budget < MaxFsOps
    /\ Ends(ReadOutcome(c))
    /\ budget' = budget + 1
    /\ UNCHANGED <<fresh, fixed, efs>>

\* the effect of the call c
Effect(c) ==
    \/ c.op = "create" /\ CallCreate(c.name)
    \/ c.op = "linkat" /\ CallLinkat(c.name, NameB)
    \/ c.op = "unlinkat" /\ CallUnlinkat(c.name)
    \/ c.op = "write_at" /\ CallWriteAt(c.ino, BLOCK_SZ - 1, Pattern(2, 255))
    \/ c.op = "clear" /\ CallClear(c.ino)
    \/ c.op \in Reading /\ CallRead(c)

\* the threads inside a call
Busy == {t \in Threads : pc[t].at # "idle"}

\* thread t calls c: it is at self.fs.lock()
TCall(t, c) ==
    /\ ~panicked
    /\ efs # NoEfs
    /\ pc[t].at = "idle"
    /\ budget + Cardinality(Busy) < MaxFsOps
    /\ c.op \in {"write_at", "clear", "read_at", "get_diskinodetype"} =>
           c.ino \in vnodes
    /\ pc' = [pc EXCEPT ![t] = [at |-> "call", call |-> c]]
    /\ UNCHANGED <<dev, queue, handles, panicked, last, fresh, budget, fixed,
                   fsvars, fs_mutex, cachelocks>>

\* self.fs.lock() returns: spin::Mutex hands the mutex to one thread at a
\* time
TLock(t) ==
    /\ pc[t].at = "call"
    /\ fs_lock(Here).fs => fs_mutex = 0
    /\ fs_mutex' = IF fs_lock(Here).fs THEN t ELSE fs_mutex
    /\ pc' = [pc EXCEPT ![t].at = "locked"]
    /\ UNCHANGED <<dev, queue, handles, panicked, last, fresh, budget, fixed,
                   fsvars, cachelocks>>

\* the first access of the call to a disk inode, a bitmap or a data block
TEnter(t) ==
    /\ pc[t].at = "locked"
    /\ pc' = [pc EXCEPT ![t].at = "in"]
    /\ UNCHANGED <<dev, queue, handles, panicked, last, fresh, budget, fixed,
                   fsvars, fs_mutex, cachelocks>>

\* the last access of the call: the filesystem is as the call leaves it
TFinish(t) ==
    /\ pc[t].at = "in"
    /\ Effect(pc[t].call)
    /\ pc' = [pc EXCEPT ![t].at = "done"]
    /\ UNCHANGED <<fs_mutex, cachelocks>>

\* the operation returns: the guard is dropped
TReturn(t) ==
    /\ pc[t].at = "done"
    /\ fs_mutex' = IF fs_mutex = t THEN 0 ELSE fs_mutex
    /\ pc' = [pc EXCEPT ![t] = NoCall]
    /\ UNCHANGED <<dev, queue, handles, panicked, last, fresh, budget, fixed,
                   fsvars, cachelocks>>

ThreadNext ==
    \/ FsFormat(TotalBlocks, 1)
    \/ \E t \in Threads, c \in Calls : TCall(t, c)
    \/ \E t \in Threads : TLock(t)
    \/ \E t \in Threads : TEnter(t)
    \/ \E t \in Threads : TFinish(t)
    \/ \E t \in Threads : TReturn(t)

SpecThreads == FsInit /\ [][ThreadNext]_vars

(***************************************************************************)
(* Threads calling the operations of Inode and block_cache_sync_all, mutex *)
(* by mutex.  A thread inside a call has todo, what it has yet to do to    *)
(* the mutexes of the cache and, between them, to the cache, in the order  *)
(* of the code; a spin::Mutex is taken when nobody holds it and the caller *)
(* spins until then.  A step of a thread is one operation on a mutex and   *)
(* what the thread does up to its next one, to the queue, the entries and  *)
(* the device as they are at that moment.  What an operation of Inode does *)
(* to which block is fixed when it has the filesystem mutex: only the      *)
(* holder of that mutex changes a queue, a buffer or a clone, and          *)
(* block_cache_sync_all changes no buffer.                                 *)
(***************************************************************************)
\* the calls the threads make: the operations of Inode, and
\* block_cache_sync_all called on its own
LockCalls ==
    {c \in Calls : c.op \in {"find", "create", "linkat", "unlinkat", "read_at",
                            "write_at", "clear", "get_diskinodetype"}}
        \cup {[op |-> "sync_all", name |-> <<>>, ino |-> 0]}

\* the call c of an operation of Inode, made now
Outcome(c) ==
    CASE c.op = "create" -> CreateOutcome(c.name)
      [] c.op = "linkat" -> LinkatOutcome(c.name, NameB)
      [] c.op = "unlinkat" -> UnlinkatOutcome(c.name)
      [] c.op = "write_at" -> WriteAtOutcome(c.ino, BLOCK_SZ - 1, Pattern(2, 255))
      [] c.op = "clear" -> ClearOutcome(c.ino)
      [] c.op \in Reading -> ReadOutcome(c)

\* what the call with outcome o does, in order; a panic ends it
Trace(o) ==
    IF o.w.panic THEN Append(o.w.locks, <<"panic", 0>>) ELSE o.w.locks

\* block_cache_sync_all once it has the manager: cache.lock().sync() for
\* every entry of the queue q, front to tail, then the manager is released
SyncLocks(q) ==
    [k \in 1..(3 * Len(q)) |->
        <<CASE k % 3 = 1 -> "lock" [] k % 3 = 2 -> "sync" [] OTHER -> "unlock",
          q[(k + 2) \div 3].block_id>>] \o << <<"unmanager", 0>> >>

\* what a thread does to the cache under the mutexes it holds
Internal == {"get", "modify", "zero", "sync", "drop", "panic"}

\* the world once ev is done
Perform(w, ev) ==
    CASE ev[1] = "get" -> lookup(w, ev[2])
      [] ev[1] = "modify" -> modify(w, ev[2], ev[3], ev[4])
      [] ev[1] = "zero" -> zero_entry(w, ev[2])
      [] ev[1] = "sync" -> sync_at(w, IndexOf(w.queue, ev[2]))
      [] ev[1] = "drop" -> release(w)
      [] ev[1] = "panic" -> [w EXCEPT !.panic = TRUE]

\* the thread goes on up to its next operation on a mutex: [w, todo]
RECURSIVE Absorb(_, _)
Absorb(w, todo) ==
    IF w.panic \/ todo = <<>> \/ todo[1][1] \notin Internal
    THEN [w |-> w, todo |-> todo]
    ELSE Absorb(Perform(w, todo[1]), Tail(todo))

\* thread t, now p, has todo left: it goes on up to its next operation on a
\* mutex; writes and evicted count its write_block calls
GoOn(t, p, todo) ==
    \E a \in {Absorb(Here, todo)} :
        /\ Become(a.w)
        /\ pc' = [pc EXCEPT ![t] = [p EXCEPT !.todo = a.todo,
                                            !.writes = @ + a.w.writes,
                                            !.evicted = @ + a.w.evicted]]

\* what thread t does next to a mutex of the cache (<<"none", 0>>: nothing)
NextLock(t) ==
    IF pc[t].at = "in" /\ pc[t].todo # <<>> THEN Head(pc[t].todo) ELSE <<"none", 0>>

\* the entry of block_id is locked
EntryHeld(block_id) == \E p \in entry_mutex : p[1] = block_id

\* thread t calls c: an operation of Inode is at self.fs.lock(),
\* block_cache_sync_all at BLOCK_CACHE_MANAGER.lock()
LCall(t, c) ==
    /\ ~panicked
    /\ efs # NoEfs
    /\ pc[t].at = "idle"
    /\ budget + Cardinality(Busy) < MaxFsOps
    /\ c.op \in {"write_at", "clear", "read_at", "get_diskinodetype"} =>
           c.ino \in vnodes
    /\ pc' = [pc EXCEPT ![t] = [at |-> "call", call |-> c, todo |-> <<>>,
                                writes |-> 0, evicted |-> 0,
                                last |-> last, vnodes |-> vnodes, gdir |-> gdir]]
    /\ UNCHANGED <<dev, queue, handles, panicked, last, fresh, budget, fixed,
                   fsvars, fs_mutex, cachelocks>>

\* self.fs.lock() returns
LFsLock(t) ==
    /\ ~panicked
    /\ pc[t].at = "call"
    /\ pc[t].call.op # "sync_all"
    /\ fs_mutex = 0
    /\ fs_mutex' = t
    /\ \E o \in {Outcome(pc[t].call)} :
           GoOn(t, [pc[t] EXCEPT !.at = "in", !.last = o.last,
                                 !.vnodes = o.vnodes, !.gdir = o.gdir],
                Trace(o))
    /\ UNCHANGED <<last, fresh, budget, fixed, fsvars, cachelocks>>

\* let manager = BLOCK_CACHE_MANAGER.lock() of block_cache_sync_all returns
LSyncAllLock(t) ==
    /\ ~panicked
    /\ pc[t].at = "call"
    /\ pc[t].call.op = "sync_all"
    /\ manager_mutex = 0
    /\ manager_mutex' = t
    /\ GoOn(t, [pc[t] EXCEPT !.at = "in", !.last = SyncAllOutcome.last],
            SyncLocks(queue))
    /\ UNCHANGED <<last, fresh, budget, fixed, fsvars, fs_mutex, entry_mutex>>

\* BLOCK_CACHE_MANAGER.lock() returns
LManagerLock(t) ==
    /\ ~panicked
    /\ NextLock(t)[1] = "manager"
    /\ manager_mutex = 0
    /\ manager_mutex' = t
    /\ GoOn(t, pc[t], Tail(pc[t].todo))
    /\ UNCHANGED <<last, fresh, budget, fixed, fsvars, fs_mutex, entry_mutex>>

\* the guard of the manager is dropped
LManagerUnlock(t) ==
    /\ ~panicked
    /\ NextLock(t)[1] = "unmanager"
    /\ manager_mutex' = 0
    /\ GoOn(t, pc[t], Tail(pc[t].todo))
    /\ UNCHANGED <<last, fresh, budget, fixed, fsvars, fs_mutex, entry_mutex>>

\* .lock() on an entry returns
LEntryLock(t) ==
    /\ ~panicked
    /\ NextLock(t)[1] = "lock"
    /\ ~EntryHeld(NextLock(t)[2])
    /\ entry_mutex' = entry_mutex \cup {<<NextLock(t)[2], t>>}
    /\ GoOn(t, pc[t], Tail(pc[t].todo))
    /\ UNCHANGED <<last, fresh, budget, fixed, fsvars, fs_mutex, manager_mutex>>

\* the guard of an entry is dropped
LEntryUnlock(t) ==
    /\ ~panicked
    /\ NextLock(t)[1] = "unlock"
    /\ entry_mutex' = entry_mutex \ {<<NextLock(t)[2], t>>}
    /\ GoOn(t, pc[t], Tail(pc[t].todo))
    /\ UNCHANGED <<last, fresh, budget, fixed, fsvars, fs_mutex, manager_mutex>>

\* the call has done everything it was to: it is about to return.  The
\* record of it has the write_block calls it made itself, and says synced
\* when no entry is dirty
LFinish(t) ==
    /\ pc[t].at = "in"
    /\ pc[t].todo = <<>>
    /\ last' = [pc[t].last EXCEPT
                   !.writes = pc[t].writes, !.evicted = pc[t].evicted,
                   !.synced = ~panicked /\ \A i \in 1..Len(queue) : ~queue[i].modified]
    /\ vnodes' = IF pc[t].call.op = "sync_all" THEN vnodes ELSE pc[t].vnodes
    /\ gdir' = IF pc[t].call.op = "sync_all" THEN gdir ELSE pc[t].gdir
    /\ budget' = budget + 1
    /\ pc' = [pc EXCEPT ![t].at = "done"]
    /\ UNCHANGED <<dev, queue, handles, panicked, fresh, fixed, efs, fs_mutex,
                   cachelocks>>

LockNext ==
    \/ FsFormat(TotalBlocks, 1)
    \/ \E t \in Threads, c \in LockCalls : LCall(t, c)
    \/ \E t \in Threads : LFsLock(t)
    \/ \E t \in Threads : LSyncAllLock(t)
    \/ \E t \in Threads : LManagerLock(t)
    \/ \E t \in Threads : LManagerUnlock(t)
    \/ \E t \in Threads : LEntryLock(t)
    \/ \E t \in Threads : LEntryUnlock(t)
    \/ \E t \in Threads : LFinish(t)
    \/ \E t \in Threads : TReturn(t)

SpecLocks == FsInit /\ [][LockNext]_vars

(***************************************************************************)
(* Properties of the block cache, under SpecCache                          *)
(***************************************************************************)
GetOps == {"get", "get_modify", "get_store"}

Unheld(q, h, i) == strong_count(h, q[i].block_id) = 1

\* this step called get_block_cache on a full queue for a block not in it
MissOnFull == last'.op \in GetOps /\ Len(queue) = 16 /\ ~Cached(queue, last'.bid)

\* C3: in every reachable state the manager's queue holds at most 16 entries.
C3_QueueAtMost16 == Len(queue) <= 16

\* a request was served from a full queue, after an eviction
C3_Witness ==
    /\ Len(queue) = 16
    /\ fresh > 16
    /\ last.op \in GetOps
    /\ ~panicked

\* C4: get_block_cache of an uncached block on a full queue (some entry being
\* referenced by the queue alone) removes exactly the first such entry from
\* the front, writes it to the device iff it was dirty (one write_block call
\* with its buffer, else none), and appends the new entry at the back: the
\* queue still holds 16 entries.
C4_EvictsFirstUnheldFlushIffDirty ==
    [][ (MissOnFull /\ \E i \in 1..Len(queue) : Unheld(queue, handles, i))
        => \E idx \in 1..Len(queue) :
            /\ Unheld(queue, handles, idx)
            /\ \A j \in 1..(idx - 1) : ~Unheld(queue, handles, j)
            /\ ~panicked'
            /\ Len(queue') = 16
            /\ \A k \in 1..15 :
                  queue'[k] = IF k < idx THEN queue[k] ELSE queue[k + 1]
            /\ queue'[16].block_id = last'.bid
            /\ last'.n = IF queue[idx].modified THEN 1 ELSE 0
            /\ \A b \in DOMAIN dev \cup DOMAIN dev' \cup {queue[idx].block_id} :
                  read_block(dev', b) =
                      IF b = queue[idx].block_id /\ queue[idx].modified
                      THEN queue[idx].cache
                      ELSE read_block(dev, b)
      ]_vars

\* a dirty entry behind a held front entry was evicted and written
C4_Witness ==
    /\ last.op = "get"
    /\ last.bid >= 16
    /\ last.n = 1
    /\ Len(queue) = 16
    /\ ~Unheld(queue, handles, 1)
    /\ \E i \in 2..16 : Unheld(queue, handles, i)
    /\ ~panicked

\* C6: get_block_cache of an uncached block on a full queue whose entries are
\* all held by callers panics; nothing is evicted, nothing is written and the
\* queue does not grow.
C6_AllHeldPanics ==
    [][ (MissOnFull /\ \A i \in 1..Len(queue) : ~Unheld(queue, handles, i))
        => /\ panicked'
           /\ queue' = queue
           /\ dev' = dev
      ]_vars

C6_Witness ==
    /\ panicked
    /\ last.op = "get"
    /\ Len(queue) = 16
    /\ ~Cached(queue, last.bid)
    /\ \A i \in 1..16 : ~Unheld(queue, handles, i)

\* C7 as stated: an entry is dirty iff a store into its buffer happened since
\* it was loaded or last flushed.
C7_DirtyIffWritten ==
    \A i \in 1..Len(queue) : queue[i].modified <=> queue[i].wrote

\* C7 as amended: an entry is dirty iff a mutable view of its buffer was
\* handed out (get_mut / modify) since it was loaded or last flushed, whether
\* or not anything was stored through it; so every store leaves the entry
\* dirty, and a dirty entry may hold no store.
C7_DirtyIffMutableAccess ==
    \A i \in 1..Len(queue) :
        /\ queue[i].modified <=> queue[i].mutacc
        /\ queue[i].wrote => queue[i].modified

\* modify ran with a closure that stored nothing: dirty, nothing written
C7_Witness ==
    /\ last.op \in {"modify", "get_modify"}
    /\ \E i \in 1..Len(queue) :
        /\ queue[i].block_id = last.bid
        /\ queue[i].modified
        /\ ~queue[i].wrote

\* C8: block_cache_sync_all leaves every entry clean and on the device, and
\* changes neither the cached block ids, nor their order, nor the buffers,
\* nor the clones callers hold.
C8_SyncAllInPlace ==
    [][ last'.op = "sync_all"
        => /\ Len(queue') = Len(queue)
           /\ handles' = handles
           /\ \A i \in 1..Len(queue) :
                /\ queue'[i].block_id = queue[i].block_id
                /\ queue'[i].cache = queue[i].cache
                /\ ~queue'[i].modified
                /\ read_block(dev', queue[i].block_id) = queue[i].cache
           /\ last'.n = Cardinality({i \in 1..Len(queue) : queue[i].modified})
           /\ \A b \in DOMAIN dev \cup DOMAIN dev' :
                (\A i \in 1..Len(queue) : queue[i].block_id # b)
                    => read_block(dev', b) = read_block(dev, b)
      ]_vars

\* a sync that found a dirty entry among several and wrote it
C8_Witness ==
    /\ last.op = "sync_all"
    /\ last.n >= 1
    /\ Len(queue) >= 2
    /\ \A i \in 1..Len(queue) : ~queue[i].modified

(***************************************************************************)
(* Properties of Bitmap, under SpecBitmap                                  *)
(***************************************************************************)
\* block b of bitmap bm, as the program sees it
BmBlock(q, d, bm, b) == ViewBlock(q, d, bm.start_block_id + b)

\* bit i of bitmap bm is set (bit i % 8 of byte i \div 8 of the bitmap)
BmBitSet(q, d, bm, i) == Bit(BmBlock(q, d, bm, i \div 4096), i % 4096) = 1

\* every bit of bm below bit i is set: the bytes below byte i \div 8 are 255
\* and so are the bits below bit i % 8 of byte i \div 8
BmFullBelow(q, d, bm, i) ==
    /\ \A b \in 0..(i \div 4096) :
          LET blk == BmBlock(q, d, bm, b)
          IN  \A o \in 0..511 : (b * 512 + o < i \div 8) => ByteAt(blk, o) = 255
    /\ \A k \in 0..((i % 8) - 1) : BmBitSet(q, d, bm, 8 * (i \div 8) + k)

\* every bit of bm is set
BmFull(q, d, bm) ==
    \A b \in 0..(bm.blocks - 1) :
        LET blk == BmBlock(q, d, bm, b)
        IN  \A o \in 0..511 : ByteAt(blk, o) = 255

\* from this state to the next, bit i of bm went from clear to set (by = 1)
\* or from set to clear (by = -1), or no bit did (by = 0), and every other
\* bit of bm is as it was
BmChangedBy(bm, i, by) ==
    /\ by = 1 => ~BmBitSet(queue, dev, bm, i)
    /\ by = -1 => BmBitSet(queue, dev, bm, i)
    /\ \A b \in 0..(bm.blocks - 1) :
          LET old == BmBlock(queue, dev, bm, b)
              new == BmBlock(queue', dev', bm, b)
          IN  \A o \in DOMAIN old \cup DOMAIN new \cup {(i \div 8) % 512} :
                ByteAt(new, o) = ByteAt(old, o)
                    + (IF b * 512 + o = i \div 8 THEN by * Pow2(i % 8) ELSE 0)

\* every block outside the bitmap, as the program sees it
OutsideSame(bm) ==
    \A id \in DOMAIN dev \cup DOMAIN dev'
              \cup {queue[i].block_id : i \in 1..Len(queue)} :
        (id < bm.start_block_id \/ id >= bm.start_block_id + bm.blocks)
            => ViewBlock(queue', dev', id) = ViewBlock(queue, dev, id)

\* C9: Bitmap::alloc returns the smallest clear bit of the whole bitmap, sets
\* exactly that bit and changes no other; it returns None iff every bit of
\* every bitmap block is set (and then changes no bit).
C9_AllocTakesLowestClearBit ==
    [][ last'.op = "alloc"
        => /\ (last'.ret = None) <=> BmFull(queue, dev, bitmap)
           /\ last'.ret # None =>
                /\ last'.ret \in 0..(maximum(bitmap) - 1)
                /\ BmFullBelow(queue, dev, bitmap, last'.ret)
                /\ BmChangedBy(bitmap, last'.ret, 1)
           /\ last'.ret = None => BmChangedBy(bitmap, 0, 0)
           /\ OutsideSame(bitmap)
           /\ ~panicked'
      ]_vars

\* the first bitmap block was full: the bit came from the second, behind a
\* set bit
C9_Witness ==
    /\ last.op = "alloc"
    /\ last.ret > 4096
    /\ BmBitSet(queue, dev, bitmap, last.ret)
    /\ BmBitSet(queue, dev, bitmap, last.ret - 1)
    /\ ~BmBitSet(queue, dev, bitmap, last.ret + 1)

\* C10: Bitmap::dealloc(bit), bit a bit of the bitmap, fails its assertion
\* when the bit is clear, and then no bit changes; when the bit is set it
\* clears exactly that bit and changes no other, and no block outside the
\* bitmap changes.  A bit past the end of the bitmap changes no bit of it.
C10_DeallocClearsOneSetBit ==
    [][ last'.op = "dealloc"
        => IF last'.bid < maximum(bitmap)
           THEN /\ panicked' <=> ~BmBitSet(queue, dev, bitmap, last'.bid)
                /\ panicked' => BmChangedBy(bitmap, last'.bid, 0)
                /\ ~panicked' => BmChangedBy(bitmap, last'.bid, -1)
                /\ OutsideSame(bitmap)
           ELSE BmChangedBy(bitmap, 0, 0)
      ]_vars

\* a bit freed twice: the second dealloc failed its assertion
C10_Witness ==
    /\ panicked
    /\ last.op = "dealloc"
    /\ last.bid < maximum(bitmap)
    /\ ~BmBitSet(queue, dev, bitmap, last.bid)
    /\ budget = 2
    /\ Cached(queue, bitmap.start_block_id + last.bid \div 4096)
    /\ queue[IndexOf(queue, bitmap.start_block_id + last.bid \div 4096)].wrote

(***************************************************************************)
(* Properties of the filesystem, under Spec and SpecFile                   *)
(***************************************************************************)
\* the world a fresh start finds: the device, nothing cached
Afresh(d) == World(<<>>, d, <<>>, FALSE)

\* the filesystem create returned for the format f
Created(f) == EasyFileSystem_create(Afresh(RawDevice), f[1], f[2]).fs

\* C1: write_at(o, s) on a file returns |s|, and the read_at(o, buf) with
\* |buf| = |s| that follows it on the same file returns |s| and fills buf
\* with s, whatever the file held before
C1_WriteReadRoundTrip ==
    [][ /\ last'.op = "write_at" => ~panicked' /\ last'.ret = Len(last'.buf)
        /\ (/\ last.op = "write_at" /\ last'.op = "read_at"
            /\ last'.ino = last.ino /\ last'.off = last.off
            /\ Len(last'.buf) = Len(last.buf))
           => /\ ~panicked'
              /\ last'.ret = Len(last.buf)
              /\ last'.data = last.buf ]_vars

\* a 2-byte read across the last direct and the first single-indirect block
\* has returned the 2 bytes written there
C1_Witness ==
    /\ last.op = "read_at" /\ ~panicked
    /\ last.off = DIRECT_BOUND * BLOCK_SZ - 1
    /\ last.ret = 2 /\ last.data = Pattern(2, 7)

\* C2: after create(dev, N, M) has returned, open(dev) succeeds and yields
\* the inode bitmap, data bitmap, inode_area_start_block and
\* data_area_start_block create returned: opened through the cache create
\* left, opened on the device alone, and opened after later calls
C2_OpenYieldsCreated ==
    [][ /\ (last'.op = "format" /\ ~panicked') =>
               \A w \in {World(queue', dev', handles', FALSE), Afresh(dev')} :
                   \E o \in {EasyFileSystem_open(w)} :
                       /\ ~o.w.panic
                       /\ o.fs = efs'
                       /\ SuperBlock_is_valid(read_block(dev', 0))
        /\ last'.op = "open" =>
               /\ ~panicked'
               /\ efs' = efs
               /\ \E f \in Formats : efs' = Created(f) ]_vars

\* open has returned the filesystem of a device formatted with two inode
\* bitmap blocks
C2_Witness ==
    /\ last.op = "open" /\ ~panicked
    /\ efs.inode_bitmap = Bitmap_new(1, 2)
    /\ efs.inode_area_start_block = 3
    /\ efs.data_bitmap.blocks = 1
    /\ efs.data_area_start_block = efs.data_bitmap.start_block_id + 1

\* the names ls returns for the root directory of the filesystem opened on
\* the world w
RootNames(w) ==
    CHOOSE v \in {IF o.w.panic THEN << <<-1>> >>
                  ELSE Inode_ls(o.w, root_inode(o.fs)).v :
                     o \in {EasyFileSystem_open(w)}} : TRUE

\* C5: once block_cache_sync_all has run, the device opened afresh lists
\* the names of the root directory that the cache lists, and they are the
\* names the calls made so far have put there, in order
C5_SyncedDeviceListsAll ==
    (last.synced /\ efs # NoEfs /\ ~panicked) =>
        /\ RootNames(Afresh(dev)) = RootNames(Here)
        /\ RootNames(Afresh(dev)) = GNames(gdir)

\* a write that evicted dirty blocks has synced; the directory holds two
\* names
C5_Witness ==
    /\ last.op = "write_at" /\ last.synced /\ ~panicked
    /\ last.evicted > 0
    /\ GNames(gdir) = <<NameA, NameB>>

(***************************************************************************)
(* Properties of the layout, under SpecLayout                              *)
(***************************************************************************)
\* the six fields of the superblock on the device
SuperFields(d) ==
    [total_blocks        |-> U32At(read_block(d, 0), 4),
     inode_bitmap_blocks |-> U32At(read_block(d, 0), 8),
     inode_area_blocks   |-> U32At(read_block(d, 0), 12),
     data_bitmap_blocks  |-> U32At(read_block(d, 0), 16),
     data_area_blocks    |-> U32At(read_block(d, 0), 20)]

\* C11: the layout create computes is contiguous and exhaustive: the
\* superblock, the inode bitmap, the inode area, the data bitmap and the
\* data area follow one another and add up to total_blocks, with
\* data_bitmap_blocks = (data_total + 4096) / 4097 and data_area_blocks =
\* data_total - data_bitmap_blocks, no subtraction below zero, for every
\* total_blocks that holds the superblock and the inode region
C11_LayoutContiguous ==
    (last.op = "format" /\ last.buf[1] >= MinTotal(last.buf[2])) =>
        LET sb == SuperFields(dev)
            l  == Layout(last.buf[1], last.buf[2])
            data_total == sb.total_blocks - 1 - sb.inode_bitmap_blocks
                              - sb.inode_area_blocks
        IN  /\ ~panicked
            /\ sb.total_blocks = last.buf[1]
            /\ sb.inode_bitmap_blocks = last.buf[2]
            /\ sb.inode_area_blocks = l.inode_area_blocks
            /\ data_total >= 0
            /\ sb.data_bitmap_blocks = (data_total + 4096) \div 4097
            /\ sb.data_bitmap_blocks <= data_total
            /\ sb.data_area_blocks = data_total - sb.data_bitmap_blocks
            /\ 1 + sb.inode_bitmap_blocks + sb.inode_area_blocks
                  + sb.data_bitmap_blocks + sb.data_area_blocks = sb.total_blocks
            /\ efs.inode_bitmap = Bitmap_new(1, sb.inode_bitmap_blocks)
            /\ efs.inode_area_start_block = 1 + sb.inode_bitmap_blocks
            /\ efs.data_bitmap =
                  Bitmap_new(1 + sb.inode_bitmap_blocks + sb.inode_area_blocks,
                             sb.data_bitmap_blocks)
            /\ efs.data_area_start_block =
                  1 + sb.inode_bitmap_blocks + sb.inode_area_blocks
                    + sb.data_bitmap_blocks
            /\ efs.data_area_start_block + sb.data_area_blocks = sb.total_blocks

\* a format whose data region needs a second bitmap block
C11_Witness ==
    /\ last.op = "format" /\ ~panicked
    /\ last.buf = <<MinTotal(1) + 4098, 1>>
    /\ SuperFields(dev).data_bitmap_blocks = 2
    /\ SuperFields(dev).data_area_blocks = 4096

(***************************************************************************)
(* Properties of the data blocks, under SpecSmall                          *)
(***************************************************************************)
\* the non-zero entries of the index block b
Entries(q, d, b) ==
    {U32At(ViewBlock(q, d, b), 4 * k) : k \in 0..(INODE_INDIRECT1_COUNT - 1)} \ {0}

\* the non-zero block ids the inode at pos stores: direct, indirect1 and
\* its entries, indirect2, its entries and theirs
StoredIds(q, d, pos) ==
    LET blk == ViewBlock(q, d, pos.block_id)
        i1  == Inode_indirect1(blk, pos)
        i2  == Inode_indirect2(blk, pos)
        subs == IF i2 = 0 THEN {} ELSE Entries(q, d, i2)
    IN  ({Inode_direct(blk, pos, i) : i \in 0..(INODE_DIRECT_COUNT - 1)}
            \cup {i1, i2}
            \cup (IF i1 = 0 THEN {} ELSE Entries(q, d, i1))
            \cup subs
            \cup UNION {Entries(q, d, b) : b \in subs}) \ {0}

\* the inodes reachable from the root: the root and those its dirents name
Reachable(g) == {0} \cup {g[i].ino : i \in 1..Len(g)}

\* C12: every non-zero block id stored in an inode reachable from the root
\* lies in the data area, [data_area_start, data_area_start + NB_da)
C12_StoredIdsInDataArea ==
    (efs # NoEfs /\ ~panicked) =>
        \A ino \in Reachable(gdir) :
            \A id \in StoredIds(queue, dev, get_disk_inode_pos(efs, ino)) :
                /\ id >= efs.data_area_start_block
                /\ id < efs.data_area_start_block
                            + SuperFields(dev).data_area_blocks

(***************************************************************************)
(* Properties of the directory, under Spec                                 *)
(***************************************************************************)
\* C13: inode 0 is allocated by the format alone and is a directory: its
\* bit stays set, no create returns 0, no dirent of a created name carries
\* inode number 0
C13_InodeZeroIsRoot ==
    (efs # NoEfs /\ ~panicked) =>
        /\ BmBitSet(queue, dev, efs.inode_bitmap, 0)
        /\ is_dir(ViewBlock(queue, dev, root_inode(efs).block_id), root_inode(efs))
        /\ 0 \notin vnodes
        /\ (last.op = "create" /\ last.ret # None) =>
               /\ last.ret >= 1
               /\ Find(last.name) = last.ret
        /\ \A name \in {NameA, NameB} : Find(name) # 0

\* the second create after a format: inode 2
C13_Witness ==
    /\ last.op = "create" /\ ~panicked /\ last.ret = 2
    /\ Find(NameB) = 2 /\ Find(NameA) = 1

\* the state after the step
There == World(queue', dev', handles', panicked')

\* the dirents of the root directory in w, 32 bytes each
DirBytes(w, fs) == Inode_read_at(w, root_inode(fs), 0, DirSize(w, fs)).data

\* ls of the root directory in w
Ls(w, fs) == Inode_ls(w, root_inode(fs)).v

\* every cache entry of w is clean and equal to its block on the device
AllFlushed(w) ==
    \A i \in 1..Len(w.queue) :
        /\ ~w.queue[i].modified
        /\ read_block(w.dev, w.queue[i].block_id) = w.queue[i].cache

\* C14: create(name) on a directory without that name takes one new
\* inode and makes it an empty file, grows the directory by one dirent of
\* 32 bytes holding (name, new id) behind the unchanged earlier dirents, and
\* flushes the cache; find(name) is then the new inode and ls the old list
\* followed by name
C14_CreateAppendsDirent ==
    [][ (last'.op = "create" /\ Find(last'.name) = None) =>
          LET new == get_disk_inode_pos(efs, last'.ret)
              blk == ViewBlock(queue', dev', new.block_id)
          IN  /\ ~panicked' /\ last'.ret # None
              /\ BmChangedBy(efs.inode_bitmap, last'.ret, 1)
              /\ Inode_type(blk, new) = File /\ Inode_size(blk, new) = 0
              /\ StoredIds(queue', dev', new) = {}
              /\ DirSize(There, efs) = DirSize(Here, efs) + DIRENT_SZ
              /\ DirBytes(There, efs) =
                    DirBytes(Here, efs) \o DirEntry_new(last'.name, last'.ret)
              /\ AllFlushed(There)
              /\ Inode_find(There, efs, root_inode(efs), last'.name).ret = last'.ret
              /\ Ls(There, efs) = Ls(Here, efs) \o <<last'.name>>
      ]_vars

\* a create into a directory that holds another name
C14_Witness ==
    /\ last.op = "create" /\ ~panicked /\ last.name = NameA /\ last.ret = 2
    /\ Ls(Here, efs) = <<NameB, NameA>>
    /\ Find(NameB) = 1

\* the step left the root directory's dirents and size and both bitmaps
\* as they were
NothingChanged ==
    /\ ~panicked'
    /\ DirSize(There, efs) = DirSize(Here, efs)
    /\ DirBytes(There, efs) = DirBytes(Here, efs)
    /\ BmChangedBy(efs.inode_bitmap, 0, 0)
    /\ BmChangedBy(efs.data_bitmap, 0, 0)

\* C15: create of a name that is present returns none, linkat of an old
\* name that is absent returns -1, unlinkat of a name that is absent
\* returns -1, and each leaves the dirents, the directory size, the inode
\* bitmap and the data bitmap as they were
C15_FailuresChangeNothing ==
    [][ /\ (last'.op = "create" /\ Find(last'.name) # None)
            => last'.ret = None /\ NothingChanged
        /\ (last'.op = "linkat" /\ Find(last'.buf) = None)
            => last'.ret = -1 /\ NothingChanged
        /\ (last'.op = "unlinkat" /\ Find(last'.name) = None)
            => last'.ret = -1 /\ NothingChanged
      ]_vars

\* a second create of the same name, behind a link to it
C15_Witness ==
    /\ last.op = "create" /\ ~panicked /\ last.name = NameA /\ last.ret = None
    /\ Ls(Here, efs) = <<NameA, NameB>>
    /\ Find(NameA) = 1 /\ Find(NameB) = 1

\* the dirents of the root directory in w, in order: [name, ino]
DirEntries(w, fs) ==
    LET bytes == DirBytes(w, fs)
    IN  [i \in 1..(Len(bytes) \div DIRENT_SZ) |->
            LET dirent == SubSeq(bytes, DIRENT_SZ * (i - 1) + 1, DIRENT_SZ * i)
            IN  [name |-> DirEntry_name(dirent),
                 ino  |-> DirEntry_inode_number(dirent)]]

\* the inode number of the first of the dirents es that carries name
\* (None: no dirent does)
FirstNamed(es, name) ==
    LET I == {i \in 1..Len(es) : es[i].name = name /\ es[i].ino # 0}
    IN  IF I = {} THEN None
        ELSE es[CHOOSE i \in I : \A j \in I : i <= j].ino

\* C16: linkat(old, new) with old present returns 0 and appends the one
\* dirent (new, inode of old) at the tail, whether or not new is there
\* already, and takes no inode; find then resolves every name to the
\* first dirent carrying it: find(new) is the inode of old unless an
\* earlier dirent was named new
C16_LinkatAppendsAlias ==
    [][ (last'.op = "linkat" /\ Find(last'.buf) # None) =>
          /\ ~panicked' /\ last'.ret = 0
          /\ DirSize(There, efs) = DirSize(Here, efs) + DIRENT_SZ
          /\ DirBytes(There, efs) =
                DirBytes(Here, efs) \o DirEntry_new(last'.name, Find(last'.buf))
          /\ BmChangedBy(efs.inode_bitmap, 0, 0)
          /\ \A name \in {NameA, NameB} :
                Inode_find(There, efs, root_inode(efs), name).ret
                    = FirstNamed(DirEntries(There, efs), name)
          /\ Inode_find(There, efs, root_inode(efs), last'.buf).ret = Find(last'.buf)
          /\ Inode_find(There, efs, root_inode(efs), last'.name).ret =
                IF Find(last'.name) # None THEN Find(last'.name)
                ELSE Find(last'.buf)
      ]_vars

\* a link under a name that an earlier dirent carries
C16_Witness ==
    /\ last.op = "linkat" /\ ~panicked /\ last.ret = 0
    /\ Ls(Here, efs) = <<NameB, NameA, NameB>>
    /\ Find(NameA) = 2 /\ Find(NameB) = 1
    /\ DirEntries(Here, efs)[3] = [name |-> NameB, ino |-> 2]

\* how many of the dirents es equal e
Count(es, e) == Cardinality({i \in 1..Len(es) : es[i] = e})

\* index of the first of the dirents es named name (0: none)
FirstIndex(es, name) ==
    LET I == {i \in 1..Len(es) : es[i].name = name}
    IN  IF I = {} THEN 0 ELSE CHOOSE i \in I : \A j \in I : i <= j

\* C17: unlinkat(name) with name present returns 0, puts the last dirent
\* in the place of the first dirent named name and shrinks the directory
\* by one slot; the dirents afterwards are the old ones less that one
\* entry, also when it is the last or the only one
C17_UnlinkatSwapRemoves ==
    [][ (last'.op = "unlinkat" /\ Find(last'.name) # None) =>
          LET es  == DirEntries(Here, efs)
              new == DirEntries(There, efs)
              i   == FirstIndex(es, last'.name)
          IN  /\ ~panicked' /\ last'.ret = 0
              /\ i # 0
              /\ DirSize(There, efs) = DirSize(Here, efs) - DIRENT_SZ
              /\ new = SubSeq([es EXCEPT ![i] = es[Len(es)]], 1, Len(es) - 1)
              /\ \A k \in 1..Len(es) :
                    Count(new, es[k]) =
                        Count(es, es[k]) - (IF es[k] = es[i] THEN 1 ELSE 0)
              /\ BmChangedBy(efs.inode_bitmap, 0, 0)
      ]_vars

\* the first of two dirents unlinked: the second one takes its place
C17_Witness ==
    /\ last.op = "unlinkat" /\ ~panicked /\ last.ret = 0 /\ last.name = NameA
    /\ DirEntries(Here, efs) = <<[name |-> NameB, ino |-> 2]>>

(***************************************************************************)
(* Properties of links, under SpecDir                                      *)
(***************************************************************************)
\* C18: where "a" resolves, linkat("a", "b") and then unlinkat("b") leave
\* as many dirents, and as large a directory, as before the link, and
\* find("a") resolves to the inode it resolved to before
C18_LinkUnlinkRestores ==
    [][ ( /\ last.op = "linkat" /\ last.ret = 0
          /\ last'.op = "unlinkat" /\ last'.name = last.name ) =>
          /\ ~panicked' /\ last'.ret = 0
          /\ last.ino # None
          /\ DirSize(There, efs) = last.off
          /\ Len(DirEntries(There, efs)) = last.off \div DIRENT_SZ
          /\ Inode_find(There, efs, root_inode(efs), last.buf).ret = last.ino
      ]_vars

\* link and unlink in a directory that held another "b" before: the dirent
\* of the older "b" is the one removed
C18_Witness ==
    /\ last.op = "unlinkat" /\ ~panicked /\ last.ret = 0 /\ last.name = NameB
    /\ vnodes = {1, 2}
    /\ DirEntries(Here, efs) = <<[name |-> NameB, ino |-> 2], [name |-> NameA, ino |-> 2]>>

\* get_nlink(inode_num) on the root directory in w
Nlink(w, fs, inode_num) == Inode_get_nlink(w, root_inode(fs), inode_num).n

\* the size of inode ino and the bytes read_at returns for all of it, in w
FileOf(w, fs, ino) ==
    LET pos == get_disk_inode_pos(fs, ino)
        size == Inode_size(ViewBlock(w.queue, w.dev, pos.block_id), pos)
    IN  [size |-> size, data |-> Inode_read_at(w, pos, 0, size).data]

\* C19: hard links share the inode and its data.  After linkat("hello",
\* "hi") made "hi" an alias, unlinkat("hello") makes find("hello") none and
\* leaves find("hi") at the original inode; get_nlink of it drops by one
\* (to 1 from 2); the inode stays allocated and read_at through it returns
\* the bytes written before, from the blocks it had
C19_UnlinkKeepsSharedInode ==
    [][ ( /\ last.op = "linkat" /\ last.ret = 0
          /\ Find(last.name) = last.ino
          /\ last'.op = "unlinkat" /\ last'.name = last.buf ) =>
          LET pos == get_disk_inode_pos(efs, last.ino)
          IN  /\ ~panicked' /\ last'.ret = 0
              /\ Inode_find(There, efs, root_inode(efs), last.buf).ret = None
              /\ Inode_find(There, efs, root_inode(efs), last.name).ret = last.ino
              /\ Nlink(There, efs, last.ino) = Nlink(Here, efs, last.ino) - 1
              /\ Nlink(Here, efs, last.ino) = 2 => Nlink(There, efs, last.ino) = 1
              /\ BmBitSet(queue', dev', efs.inode_bitmap, last.ino)
              /\ BmChangedBy(efs.inode_bitmap, 0, 0)
              /\ BmChangedBy(efs.data_bitmap, 0, 0)
              /\ StoredIds(queue', dev', pos) = StoredIds(queue, dev, pos)
              /\ FileOf(There, efs, last.ino) = FileOf(Here, efs, last.ino)
      ]_vars

\* create "hello", write, link "hi", unlink "hello": the two bytes written
\* across the first two blocks are read through "hi"
C19_Witness ==
    /\ last.op = "unlinkat" /\ ~panicked /\ last.ret = 0 /\ last.name = NameA
    /\ Find(NameA) = None /\ Find(NameB) = 1
    /\ Nlink(Here, efs, 1) = 1
    /\ FileOf(Here, efs, 1).size = BLOCK_SZ + 1
    /\ SubSeq(FileOf(Here, efs, 1).data, BLOCK_SZ, BLOCK_SZ + 1) = Pattern(2, 255)

(***************************************************************************)
(* Properties of the directory size, under SpecVnode                       *)
(***************************************************************************)
\* the inodes handed out that are directories
Directories ==
    {ino \in {0} \cup vnodes :
        LET pos == get_disk_inode_pos(efs, ino)
        IN  is_dir(ViewBlock(queue, dev, pos.block_id), pos)}

\* C20: in every reachable state the size of every directory inode is a
\* multiple of DIRENT_SZ = 32
C20_DirSizeMultipleOf32 ==
    (efs # NoEfs /\ ~panicked) =>
        \A ino \in Directories :
            LET pos == get_disk_inode_pos(efs, ino)
            IN  Inode_size(ViewBlock(queue, dev, pos.block_id), pos) % DIRENT_SZ = 0

(***************************************************************************)
(* Properties of the link count, under SpecDir                             *)
(***************************************************************************)
\* how many of the dirents es carry the inode number ino
Carrying(es, ino) == Cardinality({k \in 1..Len(es) : es[k].ino = ino})

\* C21: get_nlink(i) on the root directory is the number of its dirents
\* whose inode number is i, and after any sequence of create, linkat and
\* unlinkat that is the number of names the calls left for inode i: one for
\* its create and one for each linkat to it, less one for each unlinkat
\* that removed a dirent of it.  Every dirent counts, one whose name an
\* earlier dirent carries as well
C21_NlinkCountsDirents ==
    (efs # NoEfs /\ ~panicked) =>
        \A i \in {0} \cup Inos :
            /\ Nlink(Here, efs, i) = Carrying(DirEntries(Here, efs), i)
            /\ Nlink(Here, efs, i) = Carrying(gdir, i)

\* create "hi", create "hello", link "hi" to "hello", unlink "hi": the
\* first "hi" goes, inode 2 keeps two names and inode 1 none
C21_Witness ==
    /\ last.op = "unlinkat" /\ ~panicked /\ last.ret = 0 /\ last.name = NameB
    /\ Nlink(Here, efs, 2) = 2
    /\ Nlink(Here, efs, 1) = 0
    /\ Len(gdir) = 2

(***************************************************************************)
(* Properties of clear, under SpecClear                                    *)
(***************************************************************************)
\* the bits of bitmap bm that are set
BmSetBits(q, d, bm) ==
    UNION {LET blk == BmBlock(q, d, bm, b)
           IN  {BLOCK_BITS * b + i :
                   i \in {j \in {8 * o + k : o \in DOMAIN blk, k \in 0..7} :
                             Bit(blk, j) = 1}} :
           b \in 0..(bm.blocks - 1)}

\* every block, as the program sees it, is what it was
AllSame ==
    \A id \in DOMAIN dev \cup DOMAIN dev'
              \cup {queue[i].block_id : i \in 1..Len(queue)} :
        ViewBlock(queue', dev', id) = ViewBlock(queue, dev, id)

\* C22: clear() of a file of any size leaves it with size 0 and no block
\* ids and frees exactly the total_blocks(old size) blocks it stored (data
\* and index blocks): the count assertion holds, the bits of exactly those
\* blocks go from set to clear in the data bitmap and no inode bit changes;
\* a second clear() directly after the first finds nothing to free and
\* leaves every block (inode, bitmaps, data) as it was
C22_ClearFreesExactlyItsBlocks ==
    [][ last'.op = "clear" =>
          LET pos  == get_disk_inode_pos(efs, last'.ino)
              size == Inode_size(ViewBlock(queue, dev, pos.block_id), pos)
              old  == StoredIds(queue, dev, pos)
              bits == {id - efs.data_area_start_block : id \in old}
          IN  /\ ~panicked'
              /\ Inode_size(ViewBlock(queue', dev', pos.block_id), pos) = 0
              /\ StoredIds(queue', dev', pos) = {}
              /\ Cardinality(old) = total_blocks(size)
              /\ bits \subseteq BmSetBits(queue, dev, efs.data_bitmap)
              /\ BmSetBits(queue', dev', efs.data_bitmap)
                    = BmSetBits(queue, dev, efs.data_bitmap) \ bits
              /\ BmChangedBy(efs.inode_bitmap, 0, 0)
              /\ (last.op = "clear" /\ last.ino = last'.ino) =>
                    (size = 0 /\ old = {} /\ AllSame)
      ]_vars

\* create, a write across the last direct and the first single-indirect
\* block (29 data blocks and the index block), clear, clear: only the
\* directory's block is left allocated
C22_Witness ==
    /\ last.op = "clear" /\ ~panicked
    /\ last.off = 0 /\ last.data = <<DIRECT_BOUND * BLOCK_SZ + 1>>
    /\ StoredIds(queue, dev, get_disk_inode_pos(efs, 1)) = {}
    /\ Cardinality(BmSetBits(queue, dev, efs.data_bitmap)) = 1

(***************************************************************************)
(* Properties of the bitmaps, under Spec                                   *)
(***************************************************************************)
\* the inodes some dirent of the root directory carries, and the root
LiveInodes == {0} \cup {DirEntries(Here, efs)[k].ino : k \in 1..Len(DirEntries(Here, efs))}

\* the data-bitmap bits of the block ids the inodes I store
BitsOf(I) ==
    {id - efs.data_area_start_block :
        id \in UNION {StoredIds(queue, dev, get_disk_inode_pos(efs, ino)) : ino \in I}}

\* C23: after any sequence of create, write_at, linkat, unlinkat and
\* clear, bit k of the inode bitmap is set iff inode k is the root or some
\* dirent carries it, and bit k of the data bitmap is set iff some such
\* inode stores the id of data block k
C23_BitmapsMatchLiveReferences ==
    (efs # NoEfs /\ ~panicked) =>
        /\ BmSetBits(queue, dev, efs.inode_bitmap) = LiveInodes
        /\ BmSetBits(queue, dev, efs.data_bitmap) = BitsOf(LiveInodes)

\* how many entries of the index block b are non-zero
NonZero(q, d, b) ==
    Cardinality({k \in 0..(INODE_INDIRECT1_COUNT - 1) :
                    U32At(ViewBlock(q, d, b), 4 * k) # 0})

\* how many table slots of the inode at pos hold a non-zero block id:
\* direct, indirect1 and the entries of its block, indirect2, the entries
\* of its block and those of the blocks they name
SlotCount(q, d, pos) ==
    LET blk == ViewBlock(q, d, pos.block_id)
        i1  == Inode_indirect1(blk, pos)
        i2  == Inode_indirect2(blk, pos)
        sub(k) == U32At(ViewBlock(q, d, i2), 4 * k)
    IN  Cardinality({i \in 0..(INODE_DIRECT_COUNT - 1) : Inode_direct(blk, pos, i) # 0})
        + (IF i1 = 0 THEN 0 ELSE 1 + NonZero(q, d, i1))
        + (IF i2 = 0 THEN 0
           ELSE 1 + NonZero(q, d, i2)
                  + Cardinality({p \in (0..(INODE_INDIRECT1_COUNT - 1))
                                        \X (0..(INODE_INDIRECT1_COUNT - 1)) :
                                    /\ sub(p[1]) # 0
                                    /\ U32At(ViewBlock(q, d, sub(p[1])), 4 * p[2]) # 0}))

\* C24: for every allocated inode (inode bit set), every non-zero block
\* id in its direct and indirect tables is the id of a data block whose
\* bit is set in the data bitmap, no id occurs in two of its slots, and no
\* id occurs in the tables of two allocated inodes
C24_StoredBlocksAllocatedAndUnshared ==
    (efs # NoEfs /\ ~panicked) =>
        \A ino \in BmSetBits(queue, dev, efs.inode_bitmap) :
            LET pos == get_disk_inode_pos(efs, ino)
                ids == StoredIds(queue, dev, pos)
            IN  /\ \A id \in ids :
                      /\ id >= efs.data_area_start_block
                      /\ id - efs.data_area_start_block
                            \in BmSetBits(queue, dev, efs.data_bitmap)
                /\ SlotCount(queue, dev, pos) = Cardinality(ids)
                /\ \A other \in BmSetBits(queue, dev, efs.inode_bitmap) \ {ino} :
                      StoredIds(queue, dev, get_disk_inode_pos(efs, other))
                          \cap ids = {}

\* two files and the directory hold blocks: 29 data blocks and an index
\* block, two data blocks, one data block
C24_Witness ==
    /\ last.op = "write_at" /\ ~panicked
    /\ Cardinality(StoredIds(queue, dev, get_disk_inode_pos(efs, 1))) = 30
    /\ Cardinality(StoredIds(queue, dev, get_disk_inode_pos(efs, 2))) = 2
    /\ Cardinality(StoredIds(queue, dev, root_inode(efs))) = 1
    /\ Cardinality(BmSetBits(queue, dev, efs.data_bitmap)) = 33

(***************************************************************************)
(* Properties of the locks and the clones, under SpecClear and SpecBitmap. *)
(* Every get_block_cache of easy-fs is get_block_cache(..).lock().read(..) *)
(* or .modify(..): the clone and the guard of the entry's lock are         *)
(* temporaries of one statement, so a caller holds the lock of an entry    *)
(* exactly while it holds the clone.                                       *)
(***************************************************************************)
\* the operations of Inode a workload calls
VnodeOps == {"create", "linkat", "unlinkat", "write_at", "read_at", "clear"}

\* C26: no operation of Inode calls get_block_cache (requests the cache
\* manager lock) while it holds the lock of an entry: the lock of the
\* inode's block is released before another entry is requested
C26_NoManagerRequestUnderEntryLock ==
    last.op \in VnodeOps => last.nested = 0

\* C27: no entry lock is taken while the cache manager lock is held, in
\* get_block_cache and in block_cache_sync_all
C27_NoEntryLockUnderManagerLock ==
    last.op \in VnodeOps \cup {"format", "open", "sync_all"} => last.under = 0

\* C28: at every point of every operation the caller holds at most one
\* clone of a cache entry
C28_AtMostOneHandle ==
    last.op \in VnodeOps \cup {"format", "open", "sync_all"} => last.peak <= 1

\* the blocks start .. start + n - 1, in order
BlockRun(start, n) == [i \in 1..n |-> start + i - 1]

\* C29 as claimed: alloc and dealloc each call modify exactly once, on one
\* cache entry, whatever the number of bitmap blocks and their fill
C29_OneModifyPerCall ==
    last.op \in {"alloc", "dealloc"} => Len(last.mods) = 1

\* C29: dealloc calls modify exactly once, on the block of the bit; alloc
\* calls modify once on every bitmap block it scans, in index order: the
\* blocks before the one it takes the bit from (all of them full) and that
\* one, or every block of the bitmap when it returns None (none at all
\* for a bitmap of no blocks).  So alloc calls modify exactly once iff the
\* first block has a clear bit or is the only block.  Neither holds more
\* than one clone at a time
C29_OneModifyPerScannedBlock ==
    /\ last.op = "dealloc" =>
          last.mods = <<bitmap.start_block_id + last.bid \div BLOCK_BITS>>
    /\ last.op = "alloc" =>
          last.mods = BlockRun(bitmap.start_block_id,
                               IF last.ret = None THEN bitmap.blocks
                               ELSE last.ret \div BLOCK_BITS + 1)
    /\ last.op \in {"alloc", "dealloc"} => last.peak <= 1

\* the first bitmap block was full: alloc called modify on it and on the
\* second block, where it took the bit
C29_Witness ==
    /\ last.op = "alloc" /\ ~panicked
    /\ last.ret >= BLOCK_BITS
    /\ last.mods = <<bitmap.start_block_id, bitmap.start_block_id + 1>>

(***************************************************************************)
(* Properties of the entries of one block, under SpecCache                 *)
(***************************************************************************)
\* the block ids of the entries of the queue q
IdsOf(q) == {q[i].block_id : i \in 1..Len(q)}

\* the entries of block id in the queue q
EntriesOf(q, id) == {i \in 1..Len(q) : q[i].block_id = id}

\* the block id as an access finds it: the buffer of its first entry in the
\* queue, else what the device holds
SeenBlock(q, d, id) ==
    IF EntriesOf(q, id) = {} THEN read_block(d, id)
    ELSE q[CHOOSE i \in EntriesOf(q, id) : \A j \in EntriesOf(q, id) : i <= j].cache

\* block id was seen as before and is seen as after the step: the two
\* differ only by the byte the step stored into it, if it stored into it
SeenLatest(id, before, after) ==
    IF last'.op \in {"store", "get_store"} /\ last'.bid = id /\ ~panicked'
    THEN \E v \in 1..MaxByte : after = StoreBytes(before, [o \in {0} |-> v])
    ELSE after = before

\* C30: the queue never holds two entries of one block id, and the entry
\* of a block a caller holds a clone of stays in the queue (it is never
\* evicted), so a block never has two live entries; every access sees the
\* latest modification: from one step to the next the bytes of a block as
\* seen through the cache change only by a store into it, whatever was
\* evicted, reloaded or written back in between.  This is stated for the
\* block of every entry of the queue after the step (an entry that kept
\* its place is compared with itself before the step) and for every block
\* the device or the queue knew that has no entry after it
C30_OneLiveEntryPerBlock ==
    [][ /\ Cardinality(IdsOf(queue')) = Len(queue')
        /\ \A k \in 1..Len(handles') : handles'[k] \in IdsOf(queue')
        /\ \A k \in 1..Len(handles) :
              (\E j \in 1..Len(handles') : handles'[j] = handles[k])
                  => /\ handles[k] \in IdsOf(queue)
                     /\ handles[k] \in IdsOf(queue')
        /\ \A i \in 1..Len(queue') :
              SeenLatest(queue'[i].block_id,
                         IF i <= Len(queue) /\ queue[i].block_id = queue'[i].block_id
                         THEN queue[i].cache
                         ELSE SeenBlock(queue, dev, queue'[i].block_id),
                         queue'[i].cache)
        /\ \A id \in (DOMAIN dev \cup DOMAIN dev' \cup IdsOf(queue)) \ IdsOf(queue') :
              SeenLatest(id, SeenBlock(queue, dev, id), read_block(dev', id))
      ]_vars

\* block 0 is held and was stored into; seventeen other blocks went
\* through the full queue since, and the entry of block 0 is still at the
\* front, unwritten, with the stored byte
C30_Witness ==
    /\ ~panicked /\ Len(queue) = 16 /\ fresh > 17
    /\ handles = <<0>>
    /\ queue[1].block_id = 0 /\ queue[1].wrote
    /\ ByteAt(ViewBlock(queue, dev, 0), 0) # 0
    /\ ~(0 \in DOMAIN dev)

(***************************************************************************)
(* Properties of the filesystem mutex, under SpecThreads                   *)
(***************************************************************************)
\* thread t is between the first and the last access of its call
Accessing(t) == pc[t].at = "in"

\* C25: every mutating operation of Inode holds the filesystem mutex from
\* before its first access to a disk inode, a bitmap or a data block until
\* after its last one, and so do find, ls, read_at and get_nlink: every
\* get_block_cache of a call is made with the mutex held and the mutex is
\* free again when the call has returned; under every interleaving of the
\* threads no two calls one of which is mutating are between their first
\* and last access at the same time
C25_MutexCoversEveryAccess ==
    /\ \A t \in Threads :
          pc[t].at \in {"locked", "in", "done"} => fs_mutex = t
    /\ \A t, u \in Threads :
          (t # u /\ Accessing(t) /\ Accessing(u))
              => ~(pc[t].call.op \in Mutating \/ pc[u].call.op \in Mutating)
    /\ last.op \in Mutating \cup Reading => (last.bare = 0 /\ ~last.fs)

\* thread 1 is inside write_at, after a create by thread 2 that is now
\* spinning on the mutex in clear
C25_Witness ==
    /\ ~panicked
    /\ pc[1] = [at |-> "in", call |-> [op |-> "write_at", name |-> <<>>, ino |-> 1]]
    /\ pc[2] = [at |-> "call", call |-> [op |-> "clear", name |-> <<>>, ino |-> 1]]
    /\ fs_mutex = 1
    /\ last.op = "create"

(***************************************************************************)
(* Properties of the three levels of mutexes, under SpecLocks              *)
(***************************************************************************)
\* thread t spins: the mutex it is about to take is held
Spinning(t) ==
    \/ pc[t].at = "call" /\ pc[t].call.op # "sync_all" /\ fs_mutex # 0
    \/ pc[t].at = "call" /\ pc[t].call.op = "sync_all" /\ manager_mutex # 0
    \/ NextLock(t)[1] = "manager" /\ manager_mutex # 0
    \/ NextLock(t)[1] = "lock" /\ EntryHeld(NextLock(t)[2])

\* thread t is about to take a mutex it holds itself
SelfLock(t) ==
    \/ pc[t].at = "call" /\ pc[t].call.op # "sync_all" /\ fs_mutex = t
    \/ NextLock(t)[1] = "manager" /\ manager_mutex = t
    \/ NextLock(t)[1] = "lock" /\ <<NextLock(t)[2], t>> \in entry_mutex

\* C31: with threads running find, create, linkat, unlinkat, read_at,
\* write_at, clear and block_cache_sync_all at the same time, the
\* filesystem mutex, the manager mutex and the entry mutexes never
\* deadlock, no call locks an entry (or a mutex) it already holds, and so
\* every call that has started can go on to its end: whenever threads are
\* inside calls, one of them is not spinning on a held mutex
C31_NoDeadlockEveryCallCompletes ==
    /\ \A t \in Threads : ~SelfLock(t)
    /\ Busy # {} => \E t \in Busy : ~Spinning(t)

=============================================================================
